---- MODULE Spec2Model ----
(***************************************************************************)
(* Verification model of the Renode VS Code extension's protocol bridge:   *)
(*   - the GDB/MI command correlator        (code-debug/backend/mi2/mi2.ts) *)
(*   - the session protocol client          (RenodeProxySession)            *)
(*   - the debug session orchestrator       (program/gdb.ts, context.ts)    *)
(* Each component has its own specification (SpecMI, SpecSession,          *)
(* SpecLaunch); the variables of the other components stay unchanged.      *)
(* SpecOutput, SpecBreak and SpecCount run the correlator's record         *)
(* dispatch and its breakpoint operations.                                 *)
(***************************************************************************)
EXTENDS Integers, Sequences, FiniteSets, TLC

\* ------------------------------------------------------------------ bounds
\* number of sendCommand calls issued by the debug adapter after the
\* initial batch that connectWs sends when the socket opens
MaxCmds == 1
\* number of detach() calls made on one MI2 object
MaxDetach == 1
\* number of session-protocol requests submitted on one connection
MaxReq == 3
\* breakpoint operations (addBreakPoint, removeBreakPoint) issued on one connection
MaxBpOps == 3
\* characters of a breakpoint's countCondition
MaxCcLen == 2
\* messages the backend writes on one MI connection
MaxMsgs == 1
\* values pushed to LogMessage.logMsgRplItem between two hits of a log point
MaxValues == 3
\* entries of args.pathMappings
MaxMappings == 2
\* number of RenodeGdbDebugSession objects created on one plugin context
NSess == 2
\* times the session-protocol socket is lost
MaxCloses == 1

\* ============================================================ MI correlator
VARIABLES
  socket,        \* MI2.socket: readyState of the MI WebSocket, or "undefined"
  currentToken,  \* MI2.currentToken
  handlers,      \* MI2.handlers: token -> index of the sendCommand call whose closure it holds
  sent,          \* every string handed to socket.send, in order
  calls,         \* history of sendCommand calls: command, suppressFailure, assigned token
  promise,       \* state of the future returned by the k-th sendCommand call
  connectWs,     \* state of the promise returned by connectWs
  emitted,       \* names of the connection events MI2 has emitted (debug-ready, launcherror, quit)
  events,        \* events emitted by the onOutput call of the latest step, in order
  log,           \* <<channel, text>> entries logged by the latest step, in order
  settle,        \* what the handler closure called in the latest step did to its future
  dispatched,    \* the out-of-band record the onOutput call of the latest step went through
  breakpoints,   \* MI2.breakpoints: the Map, as its [key, num] entries in insertion order
  bpOps          \* history of addBreakPoint / removeBreakPoint calls and their promises

miVars == <<socket, currentToken, handlers, sent, calls, promise, connectWs, emitted,
            events, log, settle, dispatched, breakpoints, bpOps>>

\* log points: the LogMessage object of MI2, and the id field of the
\* Breakpoint objects
VARIABLES
  logMsgBrkList,    \* LogMessage.logMsgBrkList: the Breakpoint objects pushed, in order
  brkId,            \* Breakpoint.id of each object; 0: not set by addBreakPoint
  logMsgVar,        \* LogMessage.logMsgVar: the template of the log point hit last
  logMsgVarProcess, \* LogMessage.logMsgVarProcess, as the pieces of the string
  logMsgRplNum,     \* LogMessage.logMsgRplNum
  logMsgRplItem     \* LogMessage.logMsgRplItem

logVars == <<logMsgBrkList, brkId, logMsgVar, logMsgVarProcess, logMsgRplNum, logMsgRplItem>>

\* session protocol client
VARIABLES
  sessionSocket, \* readyState of RenodeProxySession.sessionSocket; "ERRORED":
                 \* the 'error' event was dispatched and 'close' is still to come
  requestQueue,  \* RenodeProxySession.requestQueue: the callbacks, by request index
  request,       \* state of the promise returned by the r-th sendSessionRequest
  reqError,      \* message of the error the r-th request was rejected with
  reqAnswer,     \* the request whose response was handed to the r-th request
  reqData,       \* the value the r-th request resolved to
  sessionSent,   \* requests whose message was handed to sessionSocket.send, in order
  served,        \* number of messages the remote end has answered
  inbox          \* responses on their way to the client, in order

sessVars == <<sessionSocket, requestQueue, request, reqError, reqAnswer, reqData,
              sessionSent, served, inbox>>

\* debug session orchestrator: one RenodePluginContext shared by the
\* RenodeGdbDebugSession objects of Sess
VARIABLES
  isDebugging,      \* RenodePluginContext.isDebugging
  pc,               \* where the launchRequest of each session object stands
  dpc,              \* where the disconnectRequest of each session object stands
  isRemote,         \* the local isRemote of launchRequestInner, until its last read
  interruptedLaunch,\* RenodeGdbDebugSession.interruptedLaunch
  renodeStarted,    \* RenodeGdbDebugSession.renodeStarted
  miDebugger,       \* RenodeGdbDebugSession.miDebugger: undefined, or the state of its socket
  response,         \* the launch response sent: "none", "success" or the error message
  spawned,          \* the 'spawn' request of this session's launch succeeded
  killed,           \* this session sent a 'kill' request
  raced,            \* disconnectRequest arrived while this session's launch was in progress
  currentSession,   \* RenodePluginContext.currentSession: "undefined" or "open"
  closes,           \* number of 'close' events of the session-protocol socket so far
  stopReport        \* what the disconnect() of the latest step showed about stopping Renode

launchVars == <<isDebugging, pc, dpc, isRemote, interruptedLaunch, renodeStarted,
                miDebugger, response, spawned, killed, raced, currentSession, closes,
                stopReport>>

\* transport of the MI connection
VARIABLES
  wire,          \* characters the backend has written that the socket has not delivered yet
  buffer,        \* MI2.buffer, as its characters
  message,       \* the message the backend wrote last
  fragments,     \* number of 'message' events that message has been delivered in so far
  received,      \* what stdout did with that message so far: lines parsed, text logged
  written        \* number of messages the backend has written

ioVars == <<wire, buffer, message, fragments, received, written>>

\* path mappings of the debug session and the last path translation
VARIABLES mappings, pathArg, pathDir, pathResult
pathVars == <<mappings, pathArg, pathDir, pathResult>>

\* the remote directory tree and the last readDirectory of the virtual
\* file system
VARIABLES remoteFs, fsUri, fsRequest, fsResult
fsVars == <<remoteFs, fsUri, fsRequest, fsResult>>

\* the session connections of the RenodePluginContext and the operations
\* that go through its connectGuard
VARIABLES
  sessions,      \* readyState of the sessionSocket of every RenodeProxySession created
  listeners,     \* the sessions on which the context registered its 'close' listener
  ops,           \* the calls of context operations and where each stands
  lastPort,      \* RenodePluginContext.lastPort
  failures       \* number of connection attempts that have failed so far

guardVars == <<sessions, listeners, ops, lastPort, failures>>

vars == <<miVars, sessVars, launchVars, ioVars, pathVars, fsVars, logVars, guardVars>>

\* the commands connectWs sends on 'open': initCommands(executable, cwd, false)
\* with prettyPrint = true and no extraCommands, then target-select
InitCommands ==
  << [command |-> "gdb-set mi-async on", suppressFailure |-> TRUE],
     [command |-> "list-features", suppressFailure |-> FALSE],
     [command |-> "environment-directory \"/w\"", suppressFailure |-> TRUE],
     [command |-> "file-exec-and-symbols \"/w/a.elf\"", suppressFailure |-> FALSE],
     [command |-> "enable-pretty-printing", suppressFailure |-> FALSE],
     [command |-> "target-select remote :10000", suppressFailure |-> FALSE] >>

\* commands the debug adapter issues once the backend is connected
UserCommands == {"exec-continue"}

MaxCalls == Len(InitCommands) + MaxCmds + MaxBpOps
Calls == 1..MaxCalls
\* keys of MI2.handlers
Tokens == 0..(MaxCalls + 1)
\* tokens a result line of the backend may carry: 0, every token the initial
\* batch and the adapter's commands use, one never used
LineTokens == 0..(Len(InitCommands) + MaxCmds + 1)
\* tokens of the commands the breakpoint operations send
BpTokens == (Len(InitCommands) + 1)..(Len(InitCommands) + MaxBpOps)
NoToken == -1
NoHandler == 0

\* the reason field of a stopped record; NoReason: the record has none
NoReason == "undefined"
StopReasons ==
  {NoReason, "breakpoint-hit", "watchpoint-trigger", "read-watchpoint-trigger",
   "access-watchpoint-trigger", "function-finished", "location-reached",
   "end-stepping-range", "watchpoint-scope", "solib-event", "syscall-entry",
   "syscall-return", "fork", "vfork", "exec", "signal-received", "exited-normally",
   "exited", "exited-signalled", "no-history"}

\* an out-of-band record as onOutput reads it: isStream, type, asyncClass and
\* parsed.record('reason'); NoRecord: the line has no out-of-band record
\* bkptno: the third field of a stopped record, NoBkptno if it has none;
\* content: the text of a stream record, as its characters
NoBkptno == 0
NoRecord ==
  [isStream |-> FALSE, type |-> "none", asyncClass |-> "none", reason |-> NoReason,
   bkptno |-> NoBkptno, content |-> <<>>]
StreamRecords ==
  [isStream : {TRUE}, type : {"console", "target", "log"}, asyncClass : {"none"},
   reason : {NoReason}, bkptno : {NoBkptno}, content : {<<"x">>}]
StoppedRecords ==
  [isStream : {FALSE}, type : {"exec"}, asyncClass : {"stopped"}, reason : StopReasons,
   bkptno : {NoBkptno}, content : {<<>>}]
AsyncRecords ==
  StoppedRecords
    \cup [isStream : {FALSE}, type : {"exec"}, asyncClass : {"running", "other"},
          reason : {NoReason}, bkptno : {NoBkptno}, content : {<<>>}]
    \cup [isStream : {FALSE}, type : {"notify"},
          asyncClass : {"thread-created", "thread-exited", "thread-group-added"},
          reason : {NoReason}, bkptno : {NoBkptno}, content : {<<>>}]
    \cup [isStream : {FALSE}, type : {"status"}, asyncClass : {"download"},
          reason : {NoReason}, bkptno : {NoBkptno}, content : {<<>>}]

\* result('msg') of an error record; "": the record has no msg field
Msgs == {"", "No symbol table is loaded."}
\* parseInt(result('bkpt.number')) of a done record; NoBkpt: no such field
NoBkpt == 0
BkptNums == {1, 2}

\* stopped records of a breakpoint hit that name the breakpoint
HitRecords ==
  [isStream : {FALSE}, type : {"exec"}, asyncClass : {"stopped"}, reason : {"breakpoint-hit"},
   bkptno : BkptNums, content : {<<>>}]
\* console stream records: the value a print command shows, and a text that
\* starts with '$' without being one
ValueContents == {<<"$", "1", " ", "=", " ", "5">>, <<"$", "x">>}
ValueRecords ==
  [isStream : {TRUE}, type : {"console"}, asyncClass : {"none"}, reason : {NoReason},
   bkptno : {NoBkptno}, content : ValueContents]

\* a parsed MI line, reduced to what onOutput and the handler closures read:
\* parsed.token, parsed.resultRecords.resultClass ("none": the line has no
\* result record), result('msg') and the out-of-band record
ResultLines ==
  [token : LineTokens \cup {NoToken}, resultClass : {"done"}, msg : {""},
   bkpt : {NoBkpt}, record : {NoRecord}]
    \cup [token : LineTokens \cup {NoToken}, resultClass : {"error"}, msg : Msgs,
          bkpt : {NoBkpt}, record : {NoRecord}]
\* result records of the other classes
OtherResultLines ==
  [token : LineTokens \cup {NoToken}, resultClass : {"running", "exit"}, msg : {""},
   bkpt : {NoBkpt}, record : {NoRecord}]
EmptyLine ==
  [token |-> NoToken, resultClass |-> "none", msg |-> "", bkpt |-> NoBkpt,
   record |-> NoRecord]
\* tokens tried on out-of-band lines: none, an initial command's, a later command's
OobTokens == {NoToken, 1, Len(InitCommands) + 1}
OobLines ==
  [token : OobTokens, resultClass : {"none"}, msg : {""}, bkpt : {NoBkpt},
   record : AsyncRecords \cup StreamRecords]
AllLines == ResultLines \cup OtherResultLines \cup OobLines \cup {EmptyLine}
\* the backend's answers to the commands of the breakpoint operations
BreakLines ==
  [token : BpTokens, resultClass : {"done"}, msg : {""}, bkpt : BkptNums,
   record : {NoRecord}]
    \cup [token : BpTokens, resultClass : {"error"}, msg : {"No symbol table is loaded."},
          bkpt : {NoBkpt}, record : {NoRecord}]
\* the lines the backend sends in the correlator's specification
Lines ==
  ResultLines \cup {EmptyLine}
    \cup {l \in OobLines : l.record.reason = "breakpoint-hit" \/ l.record.type = "console"}

\* sendRaw(raw): socket.send(raw + '\n')
sendRaw(snt, raw) == Append(snt, raw \o "\n")

IsDetachLine(raw) == raw = "-target-detach\n"

\* sendCommand with the handler registered one token late
sendCommand_lateKey(m, command, suppressFailure) ==
  LET sel == m.currentToken
      k == Len(m.calls) + 1
  IN [currentToken |-> sel + 1,
      handlers |-> [m.handlers EXCEPT ![sel + 1] = k],
      sent |-> sendRaw(m.sent, ToString(sel) \o "-" \o command),
      calls |-> Append(m.calls, [command |-> command,
                                 suppressFailure |-> suppressFailure, sel |-> sel]),
      promise |-> [m.promise EXCEPT ![k] = "pending"]]

\* sendCommand that does not advance the token
sendCommand_noIncrement(m, command, suppressFailure) ==
  LET sel == m.currentToken
      k == Len(m.calls) + 1
  IN [currentToken |-> sel,
      handlers |-> [m.handlers EXCEPT ![sel] = k],
      sent |-> sendRaw(m.sent, ToString(sel) \o "-" \o command),
      calls |-> Append(m.calls, [command |-> command,
                                 suppressFailure |-> suppressFailure, sel |-> sel]),
      promise |-> [m.promise EXCEPT ![k] = "pending"]]

\* sendCommand(command, suppressFailure) applied to the correlator state m:
\*   const sel = this.currentToken++; this.handlers[sel] = ...; this.sendRaw(sel + '-' + command)
sendCommand(m, command, suppressFailure) ==
  LET sel == m.currentToken
      k == Len(m.calls) + 1
  IN [currentToken |-> sel + 1,
      handlers |-> [m.handlers EXCEPT ![sel] = k],
      sent |-> sendRaw(m.sent, ToString(sel) \o "-" \o command),
      calls |-> Append(m.calls, [command |-> command,
                                 suppressFailure |-> suppressFailure, sel |-> sel]),
      promise |-> [m.promise EXCEPT ![k] = "pending"]]

RECURSIVE sendCommands(_, _)
sendCommands(m, cmds) ==
  IF cmds = <<>> THEN m
  ELSE sendCommands(sendCommand(m, Head(cmds).command, Head(cmds).suppressFailure),
                    Tail(cmds))

Correlator ==
  [currentToken |-> currentToken, handlers |-> handlers, sent |-> sent,
   calls |-> calls, promise |-> promise]

\* a handler closure that does not look at suppressFailure
handlerOutcome_noSuppress(k, line) ==
  IF line.resultClass = "error" THEN "rejected" ELSE "resolved"

\* the handler closure of call k applied to a parsed line (mi2.ts 1049-1066)
handlerOutcome(k, line) ==
  IF line.resultClass = "error"
  THEN IF calls[k].suppressFailure THEN "resolved" ELSE "rejected"
  ELSE "resolved"

\* what the closure does with the node it is called with: resolve(node), or
\* reject(new MIError(node.result('msg') || 'Internal error', command))
NoSettle == [call |-> 0, how |-> "none", node |-> EmptyLine, message |-> "", command |-> ""]
handlerSettle(k, line) ==
  IF handlerOutcome(k, line) = "rejected"
  THEN [call |-> k, how |-> "reject", node |-> line,
        message |-> IF line.msg # "" THEN line.msg ELSE "Internal error",
        command |-> calls[k].command]
  ELSE [call |-> k, how |-> "resolve", node |-> line, message |-> "", command |-> ""]

\* what the closure logs: the warning of a suppressed failure
handlerLog(k, line) ==
  IF line.resultClass = "error" /\ calls[k].suppressFailure
  THEN << <<"stderr", "WARNING: Error executing command '" \o calls[k].command \o "'">> >>
  ELSE <<>>

\* the switch with the 'step-out-end' event its comment mentions for
\* function-finished, and a missing reason falling into the default
stopEvent_stepOut(reason) ==
  CASE reason = "breakpoint-hit" -> "breakpoint"
    [] reason \in {"watchpoint-trigger", "read-watchpoint-trigger",
                   "access-watchpoint-trigger"} -> "watchpoint"
    [] reason = "function-finished" -> "step-out-end"
    [] reason \in {"location-reached", "end-stepping-range"} -> "step-end"
    [] reason \in {"watchpoint-scope", "solib-event", "syscall-entry", "syscall-return"} -> "step-end"
    [] reason \in {"fork", "vfork", "exec"} -> "step-end"
    [] reason = "signal-received" -> "signal-stop"
    [] reason = "exited-normally" -> "exited-normally"
    [] reason = "exited" -> "exited-normally"
    [] OTHER -> "stopped"

\* the switch over the reason of a stopped record (mi2.ts 297-367)
stopEvent(reason) ==
  CASE reason = NoReason -> "step-other"
    [] reason = "breakpoint-hit" -> "breakpoint"
    [] reason \in {"watchpoint-trigger", "read-watchpoint-trigger",
                   "access-watchpoint-trigger"} -> "watchpoint"
    [] reason \in {"function-finished", "location-reached", "end-stepping-range"} -> "step-end"
    [] reason \in {"watchpoint-scope", "solib-event", "syscall-entry", "syscall-return"} -> "step-end"
    [] reason \in {"fork", "vfork", "exec"} -> "step-end"
    [] reason = "signal-received" -> "signal-stop"
    [] reason = "exited-normally" -> "exited-normally"
    [] reason = "exited" -> "exited-normally"
    [] OTHER -> "stopped"

\* a switch whose default branch logs nothing
stopLog_silent(reason) ==
  IF reason = "exited" THEN << <<"stderr", "Program exited with code">> >> ELSE <<>>

\* what the switch logs (trace is false)
stopLog(reason) ==
  CASE reason = "exited" -> << <<"stderr", "Program exited with code">> >>
    [] stopEvent(reason) = "stopped" ->
         << <<"console", "Not implemented stop reason (assuming exception): " \o reason>> >>
    [] OTHER -> <<>>

\* a dispatch that emits nothing for a stop without reason
recordEvents_noReason(rec) ==
  CASE rec = NoRecord \/ rec.isStream -> <<>>
    [] rec.type = "exec" /\ rec.asyncClass = "running" -> <<"exec-async-output", "running">>
    [] rec.type = "exec" /\ rec.asyncClass = "stopped" /\ rec.reason = NoReason ->
         <<"exec-async-output">>
    [] rec.type = "exec" /\ rec.asyncClass = "stopped" ->
         <<"exec-async-output", stopEvent(rec.reason)>>
    [] rec.type = "exec" -> <<"exec-async-output">>
    [] rec.type = "notify" /\ rec.asyncClass \in {"thread-created", "thread-exited"} ->
         <<rec.asyncClass>>
    [] OTHER -> <<>>

\* the events emitted for one out-of-band record (mi2.ts 284-379)
recordEvents(rec) ==
  CASE rec = NoRecord \/ rec.isStream -> <<>>
    [] rec.type = "exec" /\ rec.asyncClass = "running" -> <<"exec-async-output", "running">>
    [] rec.type = "exec" /\ rec.asyncClass = "stopped" ->
         <<"exec-async-output", stopEvent(rec.reason)>>
    [] rec.type = "exec" -> <<"exec-async-output">>
    [] rec.type = "notify" /\ rec.asyncClass \in {"thread-created", "thread-exited"} ->
         <<rec.asyncClass>>
    [] OTHER -> <<>>

\* what is logged for one out-of-band record, the string that logMsgOutput
\* returns for a stream record left aside
recordLog(rec) ==
  CASE rec = NoRecord -> <<>>
    [] rec.isStream -> << <<rec.type, "content">> >>
    [] rec.type = "exec" /\ rec.asyncClass = "stopped" -> stopLog(rec.reason)
    [] rec.type = "exec" /\ rec.asyncClass # "running" -> << <<"log", "parsed">> >>
    [] OTHER -> <<>>

\* onOutput finds a handler for the line: parsed.token !== undefined and
\* handlers[parsed.token] is set, whatever the line holds
hasHandler(line) == line.token # NoToken /\ handlers[line.token] # NoHandler

\* what the closure onOutput calls for the line, if any, does to its future
onOutputSettle(line) ==
  IF hasHandler(line) THEN handlerSettle(handlers[line.token], line) ELSE NoSettle

\* everything onOutput logs for one protocol line (debugOutput is false)
onOutputLog(line) ==
  (IF hasHandler(line) THEN handlerLog(handlers[line.token], line) ELSE <<>>)
    \o (IF ~hasHandler(line) /\ line.resultClass = "error"
        THEN << <<"stderr", IF line.msg # "" THEN line.msg ELSE "line">> >> ELSE <<>>)
    \o recordLog(line.record)

\* Promise.all over the initial batch: list-features (call 2) is wrapped in a
\* promise that resolves on success and on failure alike
InitCalls == 1..Len(InitCommands)
initOk(p, k) == IF k = 2 THEN p[k] \in {"resolved", "rejected"} ELSE p[k] = "resolved"
initFailed(p, k) == k # 2 /\ p[k] = "rejected"
connectWsAfter(p) ==
  IF connectWs # "pending" THEN connectWs
  ELSE IF \E k \in InitCalls : initFailed(p, k) THEN "rejected"
  ELSE IF \A k \in InitCalls : initOk(p, k) THEN "resolved"
  ELSE "pending"

\* onOutput that removes the handler without calling it
onOutputPromise_dropped(line) == promise

\* the futures after onOutput handled one protocol line (mi2.ts 268-275)
onOutputPromise(line) ==
  IF hasHandler(line)
  THEN [promise EXCEPT ![handlers[line.token]] = handlerOutcome(handlers[line.token], line)]
  ELSE promise

\* an onOutput that leaves the handler it called in the table
onOutputHandlers_kept(line) == handlers

\* the handler table after onOutput handled one protocol line
onOutputHandlers(line) ==
  IF hasHandler(line)
  THEN [handlers EXCEPT ![line.token] = NoHandler]
  ELSE handlers

\* ------------------------------------------------------------ breakpoints
\* the Breakpoint objects the adapter passes in, and the newBrk object the
\* i-th breakpoint operation creates; the Map compares keys by identity
CallerBps == {"bp1", "bp2"}
NewBrk(i) == "newBrk" \o ToString(i)
\* the callers' breakpoints that carry a condition, and those that carry a
\* logMessage
CondBps == {"cb1"}
LogBps == {"lp1", "lp2", "lp3", "lp4"}
BpObjects == CallerBps \cup CondBps \cup LogBps \cup {NewBrk(i) : i \in 1..MaxBpOps}
\* the argument of the addBreakPoint call that created the object b
ArgOf(b) == bpOps[CHOOSE i \in 1..Len(bpOps) : NewBrk(i) = b].arg

\* Breakpoint.file of the objects: the callers' breakpoints are in two files,
\* and the object addBreakPoint creates has the file of its argument
RECURSIVE FileOf(_)
FileOf(b) ==
  IF b = "bp2" THEN "other.c"
  ELSE IF b \in CallerBps \cup CondBps \cup LogBps THEN "main.c"
  ELSE FileOf(ArgOf(b))

\* Breakpoint.condition; "": the breakpoint has none
RECURSIVE ConditionOf(_)
ConditionOf(b) ==
  IF b \in CondBps THEN "x > 1"
  ELSE IF b \in CallerBps \cup LogBps THEN ""
  ELSE ConditionOf(ArgOf(b))

\* a logMessage as its pieces: text outside braces, and the text between a
\* '{' and the next '}', each as its characters
Lit(cs) == [ph |-> FALSE, text |-> cs]
Ph(cs) == [ph |-> TRUE, text |-> cs]
\* Breakpoint.logMessage; <<>>: the breakpoint has none. 'v={x}', '{x} {y}',
\* 's={a+b}' and 'hi'
RECURSIVE LogMessageOf(_)
LogMessageOf(b) ==
  CASE b = "lp1" -> <<Lit(<<"v", "=">>), Ph(<<"x">>)>>
    [] b = "lp2" -> <<Ph(<<"x">>), Lit(<<" ">>), Ph(<<"y">>)>>
    [] b = "lp3" -> <<Lit(<<"s", "=">>), Ph(<<"a", "+", "b">>)>>
    [] b = "lp4" -> <<Lit(<<"h", "i">>)>>
    [] b \in CallerBps \cup CondBps -> <<>>
    [] OTHER -> LogMessageOf(ArgOf(b))

\* '"' + escape(file) + ':' + line + '"' of the Breakpoint objects: the line
\* is the same for all of them, with nothing to escape in the file names
LocationOf(b) == "\"" \o FileOf(b) \o ":42\""

\* countCondition as its characters; <<>>: the breakpoint has none
Digits == {"0", "1", "2", "3", "4", "5", "6", "7", "8", "9"}
CcChars == {">", "0", "3", "a"}
RECURSIVE SeqsUpTo(_, _)
SeqsUpTo(S, n) ==
  IF n = 0 THEN {<<>>}
  ELSE LET shorter == SeqsUpTo(S, n - 1)
       IN shorter \cup {Append(q, c) : q \in shorter, c \in S}
CountConditions == SeqsUpTo(CcChars, MaxCcLen)

RECURSIVE Str(_)
Str(cs) == IF cs = <<>> THEN "" ELSE Head(cs) \o Str(Tail(cs))

DigitVal(c) ==
  CASE c = "0" -> 0 [] c = "1" -> 1 [] c = "2" -> 2 [] c = "3" -> 3 [] c = "4" -> 4
    [] c = "5" -> 5 [] c = "6" -> 6 [] c = "7" -> 7 [] c = "8" -> 8 [] c = "9" -> 9

\* parseInt of a string of digits
RECURSIVE parseIntFrom(_, _)
parseIntFrom(cs, acc) ==
  IF cs = <<>> THEN acc ELSE parseIntFrom(Tail(cs), 10 * acc + DigitVal(Head(cs)))
parseInt(cs) == parseIntFrom(cs, 0)

\* numRegex.exec(cs), numRegex = /\d+/: the first maximal run of digits;
\* <<>> stands for null (no digit in cs)
RECURSIVE digitRun(_)
digitRun(cs) ==
  IF cs = <<>> \/ Head(cs) \notin Digits THEN <<>>
  ELSE <<Head(cs)>> \o digitRun(Tail(cs))
RECURSIVE numRegexExec(_)
numRegexExec(cs) ==
  IF cs = <<>> THEN <<>>
  ELSE IF Head(cs) \in Digits THEN digitRun(cs)
  ELSE numRegexExec(Tail(cs))

UnsupportedCount(cc) ==
  <<"stderr", "Unsupported break count expression: '" \o Str(cc)
                \o "'. Only supports 'X' for breaking once after X times or '>X' for ignoring the first X breaks">>

\* a count prefix that takes a condition without digits for a plain temporary
\* breakpoint, and drops the temporary flag of the bare form
countLocation_noTemp(cc) ==
  IF cc = <<>> THEN [throws |-> FALSE, location |-> "", log |-> <<>>]
  ELSE IF numRegexExec(cc) = <<>>
       THEN [throws |-> FALSE, location |-> "-t ", log |-> <<UnsupportedCount(cc)>>]
  ELSE IF Head(cc) = ">"
       THEN [throws |-> FALSE, location |-> "-i " \o Str(numRegexExec(Tail(cc))) \o " ",
             log |-> <<>>]
  ELSE IF Len(numRegexExec(cc)) # Len(cc)
       THEN [throws |-> FALSE, location |-> "-t ", log |-> <<UnsupportedCount(cc)>>]
  ELSE [throws |-> FALSE,
        location |-> "-i " \o ToString(parseInt(numRegexExec(cc))) \o " ", log |-> <<>>]

\* the count prefix addBreakPoint puts before the location (mi2.ts 561-582);
\* throws: numRegex.exec(...) is null and '![0]' raises a TypeError
countLocation(cc) ==
  IF cc = <<>> THEN [throws |-> FALSE, location |-> "", log |-> <<>>]
  ELSE IF Head(cc) = ">"
       THEN LET m == numRegexExec(Tail(cc))
            IN IF m = <<>> THEN [throws |-> TRUE, location |-> "", log |-> <<>>]
               ELSE [throws |-> FALSE, location |-> "-i " \o Str(m) \o " ", log |-> <<>>]
  ELSE LET match == numRegexExec(cc)
       IN IF match = <<>> THEN [throws |-> TRUE, location |-> "", log |-> <<>>]
          ELSE IF Len(match) # Len(cc)
               THEN [throws |-> FALSE, location |-> "-t ", log |-> <<UnsupportedCount(cc)>>]
          ELSE IF parseInt(match) # 0
               THEN [throws |-> FALSE,
                     location |-> "-t -i " \o ToString(parseInt(match)) \o " ",
                     log |-> <<>>]
          ELSE [throws |-> FALSE, location |-> "", log |-> <<>>]

\* this.breakpoints.has(b) and this.breakpoints.get(b)
bpHas(b) == \E n \in DOMAIN breakpoints : breakpoints[n].key = b
bpGet(b) == breakpoints[CHOOSE n \in DOMAIN breakpoints : breakpoints[n].key = b].num

\* Map.set and Map.delete: a new key goes last, a key that is there keeps
\* its place
bpSet(bps, b, num) ==
  IF \E n \in DOMAIN bps : bps[n].key = b
  THEN [n \in DOMAIN bps |-> IF bps[n].key = b THEN [key |-> b, num |-> num] ELSE bps[n]]
  ELSE Append(bps, [key |-> b, num |-> num])
bpDelete(bps, b) == SelectSeq(bps, LAMBDA e : e.key # b)

\* the source files clearBreakPoints is called with
Sources == {"main.c", "other.c"}

\* clearBreakPoints(source): the entries it deletes in the backend, and the
\* Map it builds from the others
clearDeleted_all(source) == breakpoints
clearDeleted(source) == SelectSeq(breakpoints, LAMBDA e : FileOf(e.key) = source)
clearKept_none(source) == <<>>
clearKept(source) == SelectSeq(breakpoints, LAMBDA e : FileOf(e.key) # source)
deleteCommands(bps) ==
  [n \in DOMAIN bps |->
     [command |-> "break-delete " \o ToString(bps[n].num), suppressFailure |-> FALSE]]

\* the characters of the class [a-z0-9A-Z-_\.\>\&\*\[\]] of setLogPoint
\* among the characters of the log messages
PrintChars == {"x", "y", "a", "b", "v", "s", "h", "i"} \cup Digits
                \cup {"-", "_", ".", ">", "&", "*", "[", "]"}

\* setLogPoint: the texts m[1] of the matches of
\* /{([a-z0-9A-Z-_\.\>\&\*\[\]]*)}/gm for which a print is added
RECURSIVE printsOf(_)
printsOf(tpl) ==
  IF tpl = <<>> THEN <<>>
  ELSE (IF /\ Head(tpl).ph
           /\ Head(tpl).text # <<>>
           /\ \A n \in DOMAIN Head(tpl).text : Head(tpl).text[n] \in PrintChars
        THEN <<Str(Head(tpl).text)>> ELSE <<>>) \o printsOf(Tail(tpl))
RECURSIVE printCommands(_)
printCommands(ps) ==
  IF ps = <<>> THEN "" ELSE "\"print " \o Head(ps) \o "\" " \o printCommands(Tail(ps))
\* the command setLogPoint(bkptNum, command) sends
setLogPoint(bkptNum, tpl) ==
  "break-commands " \o ToString(bkptNum) \o " " \o printCommands(printsOf(tpl))
\* the command setBreakPointCondition(bkptNum, condition) sends
setBreakPointCondition(bkptNum, condition) ==
  "break-condition " \o ToString(bkptNum) \o " " \o condition

\* logMsgVar.match(logReplaceTest) for /{([^}]*)}/g: every brace pair
placeHolders(tpl) == SelectSeq(tpl, LAMBDA part : part.ph)
\* logMsgVar.replace(logReplaceTest, 'placeHolderForVariable'), as pieces
PlaceHolder == "placeHolderForVariable"
replaceAll(tpl) ==
  [n \in DOMAIN tpl |-> IF tpl[n].ph THEN PlaceHolder ELSE Str(tpl[n].text)]
\* String.replace('placeHolderForVariable', item): the first occurrence
replaceFirst(pieces, item) ==
  IF \E n \in DOMAIN pieces : pieces[n] = PlaceHolder
  THEN [pieces EXCEPT ![CHOOSE n \in DOMAIN pieces :
                          /\ pieces[n] = PlaceHolder
                          /\ \A j \in 1..(n - 1) : pieces[j] # PlaceHolder] = item]
  ELSE pieces
RECURSIVE replaceEach(_, _)
replaceEach(pieces, items) ==
  IF items = <<>> THEN pieces
  ELSE replaceEach(replaceFirst(pieces, Head(items)), Tail(items))
RECURSIVE Join(_)
Join(pieces) == IF pieces = <<>> THEN "" ELSE Head(pieces) \o Join(Tail(pieces))

\* logMsgMatch.exec(content) for /(^\$[0-9]*[\ ]*=[\ ]*)(.*)/ and
\* content.substr(variableMatch[1].length).trim(): the value shown, NoValue
\* without a match (the values of the model end without white space)
RECURSIVE skipChars(_, _)
skipChars(cs, S) == IF cs = <<>> \/ Head(cs) \notin S THEN cs ELSE skipChars(Tail(cs), S)
NoValue == [matched |-> FALSE, value |-> ""]
logMsgMatch(content) ==
  IF content = <<>> \/ Head(content) # "$" THEN NoValue
  ELSE LET rest == skipChars(skipChars(Tail(content), Digits), {" "})
       IN IF rest = <<>> \/ Head(rest) # "=" THEN NoValue
          ELSE [matched |-> TRUE, value |-> Str(skipChars(Tail(rest), {" "}))]

\* the fields of LogMessage that its two methods write
LogMsg ==
  [var |-> logMsgVar, proc |-> logMsgVarProcess, num |-> logMsgRplNum,
   items |-> logMsgRplItem, out |-> ""]

\* logMsgOutput(record) on the fields lm; out: the string returned, "" for
\* undefined
logMsgOutput(lm, rec) ==
  IF rec.type = "console" /\ logMsgMatch(rec.content).matched
  THEN LET items == Append(lm.items, logMsgMatch(rec.content).value)
       IN IF lm.num - 1 = 0
          THEN [lm EXCEPT !.items = items, !.num = 0,
                          !.proc = replaceEach(lm.proc, items),
                          !.out = "Log Message:" \o Join(replaceEach(lm.proc, items))]
          ELSE [lm EXCEPT !.items = items, !.num = lm.num - 1]
  ELSE lm

\* logMsgProcess(parsed) for a breakpoint-hit record on the fields lm: every
\* entry of the list whose id is the record's bkptno sets the fields, so the
\* last of them decides
logMsgProcess(lm, list, ids, rec) ==
  LET hit == SelectSeq(list, LAMBDA b : ids[b] = rec.bkptno)
  IN IF hit = <<>> THEN lm
     ELSE LET tpl == LogMessageOf(hit[Len(hit)])
          IN [var |-> tpl, proc |-> replaceAll(tpl), num |-> Len(placeHolders(tpl)),
              items |-> <<>>, out |-> ""]

\* this.log('console', logOutput) for the string logMsgOutput returns
logMsgLog(line) ==
  IF line.record.isStream /\ logMsgOutput(LogMsg, line.record).out # ""
  THEN << <<"console", logMsgOutput(LogMsg, line.record).out>> >> ELSE <<>>

\* the fields of LogMessage after onOutput went through the record rec
recordLogMsg(list, ids, rec) ==
  IF rec = NoRecord THEN LogMsg
  ELSE IF rec.isStream THEN logMsgOutput(LogMsg, rec)
  ELSE IF rec.type = "exec" /\ rec.asyncClass = "stopped" /\ rec.reason = "breakpoint-hit"
       THEN logMsgProcess(LogMsg, list, ids, rec)
  ELSE LogMsg

\* the breakpoint operation whose command is the sendCommand call k, 0 if none
opOfCall(k) ==
  IF \E i \in 1..Len(bpOps) :
       bpOps[i].call # 0 /\ ((bpOps[i].call <= k /\ k <= bpOps[i].last) \/ bpOps[i].follow = k)
  THEN CHOOSE i \in 1..Len(bpOps) :
         bpOps[i].call # 0 /\ ((bpOps[i].call <= k /\ k <= bpOps[i].last) \/ bpOps[i].follow = k)
  ELSE 0

\* addBreakPoint(b) sends a second command when the insert is done
needsFollowUp(b) == ConditionOf(b) # "" \/ LogMessageOf(b) # <<>>
\* commands that pending addBreakPoint calls may still send
Reserved ==
  Cardinality({i \in 1..Len(bpOps) :
                 /\ bpOps[i].op = "add" /\ bpOps[i].state = "pending"
                 /\ bpOps[i].call # 0 /\ bpOps[i].follow = 0
                 /\ needsFollowUp(bpOps[i].arg)})

\* the promise of a breakpoint operation after the .then callbacks of its
\* command ran on the settlement st (mi2.ts 593-636, 648-657): an add resolves
\* on done and rejects otherwise, and when the breakpoint has a condition or
\* a logMessage the done insert only sends setBreakPointCondition or
\* setLogPoint, whose answer resolves it: true on done, false on another
\* class, rejected on an error; a remove resolves true on done and false
\* otherwise and has no rejection callback; a node without result record
\* makes the callback throw, which leaves the promise pending. A clear
\* (661-686) is settled by the first of its commands that is answered: true
\* on done, false otherwise, and a rejection or a throwing callback rejects
\* it through Promise.all
opAfter(o, st) ==
  IF o.op = "clear"
  THEN IF o.state # "pending" THEN o
       ELSE IF st.how = "reject" \/ st.node.resultClass = "none"
            THEN [o EXCEPT !.state = "rejected"]
       ELSE [o EXCEPT !.state = "resolved", !.value = (st.node.resultClass = "done")]
  ELSE IF o.op = "add" /\ st.call = o.follow
  THEN IF st.how = "reject" THEN [o EXCEPT !.state = "rejected"]
       ELSE IF st.node.resultClass = "none" THEN o
       ELSE [o EXCEPT !.state = "resolved", !.value = (st.node.resultClass = "done")]
  ELSE IF /\ o.op = "add" /\ st.how = "resolve" /\ st.node.resultClass = "done"
          /\ needsFollowUp(o.arg)
  THEN [o EXCEPT !.num = st.node.bkpt, !.follow = Len(calls) + 1]
  ELSE IF st.how = "reject"
  THEN IF o.op = "add" THEN [o EXCEPT !.state = "rejected"] ELSE o
  ELSE IF st.node.resultClass = "none" THEN o
  ELSE IF st.node.resultClass = "done"
       THEN [o EXCEPT !.state = "resolved", !.value = TRUE]
  ELSE IF o.op = "add" THEN [o EXCEPT !.state = "rejected"]
  ELSE [o EXCEPT !.state = "resolved", !.value = FALSE]

thenBpOps(st) ==
  IF st.how = "none" \/ opOfCall(st.call) = 0 THEN bpOps
  ELSE [bpOps EXCEPT ![opOfCall(st.call)] = opAfter(bpOps[opOfCall(st.call)], st)]

\* callbacks that store the entry as soon as the insert is done
thenBreakpoints_atInsert(st) ==
  IF st.how # "resolve" \/ opOfCall(st.call) = 0 \/ st.node.resultClass # "done"
  THEN breakpoints
  ELSE LET i == opOfCall(st.call)
       IN IF bpOps[i].op = "add"
          THEN IF st.call = bpOps[i].follow THEN bpSet(breakpoints, NewBrk(i), bpOps[i].num)
               ELSE bpSet(breakpoints, NewBrk(i), st.node.bkpt)
          ELSE IF bpOps[i].op = "remove" THEN bpDelete(breakpoints, bpOps[i].arg)
          ELSE breakpoints

\* the Map after those callbacks: an add sets (newBrk, bkptNum) under the
\* object it has just created, once the insert and the command that follows
\* it are done; a remove deletes the entry of its argument, a clear has
\* replaced the Map when it was called
thenBreakpoints(st) ==
  IF st.how # "resolve" \/ opOfCall(st.call) = 0 \/ st.node.resultClass # "done"
  THEN breakpoints
  ELSE LET i == opOfCall(st.call)
       IN IF bpOps[i].op = "add"
          THEN IF st.call = bpOps[i].follow THEN bpSet(breakpoints, NewBrk(i), bpOps[i].num)
               ELSE IF needsFollowUp(bpOps[i].arg) THEN breakpoints
               ELSE bpSet(breakpoints, NewBrk(i), st.node.bkpt)
          ELSE IF bpOps[i].op = "remove" THEN bpDelete(breakpoints, bpOps[i].arg)
          ELSE breakpoints

\* the command the callback of a done break-insert sends, "" if none
followUpCommand(st) ==
  IF st.how # "resolve" \/ opOfCall(st.call) = 0 \/ st.node.resultClass # "done" THEN ""
  ELSE LET o == bpOps[opOfCall(st.call)]
       IN IF o.op # "add" \/ st.call # o.call \/ ~needsFollowUp(o.arg) THEN ""
          ELSE IF ConditionOf(o.arg) # ""
               THEN setBreakPointCondition(st.node.bkpt, ConditionOf(o.arg))
          ELSE setLogPoint(st.node.bkpt, LogMessageOf(o.arg))
thenCorrelator(m, st) ==
  IF followUpCommand(st) = "" THEN m ELSE sendCommand(m, followUpCommand(st), FALSE)

\* the log point whose setLogPoint is answered done by the settlement st, 0
\* if none: breakpoint.id = newBrk.id; logMsgBrkList.push(breakpoint)
logPointSet(st) ==
  IF st.how # "resolve" \/ opOfCall(st.call) = 0 \/ st.node.resultClass # "done" THEN 0
  ELSE LET o == bpOps[opOfCall(st.call)]
       IN IF o.op = "add" /\ st.call = o.follow /\ ConditionOf(o.arg) = ""
          THEN opOfCall(st.call) ELSE 0
thenBrkList(st) ==
  IF logPointSet(st) = 0 THEN logMsgBrkList
  ELSE Append(logMsgBrkList, bpOps[logPointSet(st)].arg)
thenBrkId(st) ==
  IF logPointSet(st) = 0 THEN brkId
  ELSE [brkId EXCEPT ![bpOps[logPointSet(st)].arg] = bpOps[logPointSet(st)].num]

\* the fields of the correlator as onOutput leaves them for the callbacks
Handled(line) ==
  [currentToken |-> currentToken, handlers |-> onOutputHandlers(line), sent |-> sent,
   calls |-> calls, promise |-> onOutputPromise(line)]

\* the state after onOutput(line): the handler of the line's token, the
\* callbacks chained on its promise, then the out-of-band record
Dispatch(line) ==
  /\ (line.record.isStream /\ logMsgMatch(line.record.content).matched)
       => Len(logMsgRplItem) < MaxValues
  /\ settle' = onOutputSettle(line)
  /\ IF bpOps = <<>> \/ followUpCommand(settle') = ""
     THEN /\ promise' = onOutputPromise(line)
          /\ handlers' = onOutputHandlers(line)
          /\ UNCHANGED <<currentToken, sent, calls>>
     ELSE LET m == thenCorrelator(Handled(line), settle')
          IN /\ promise' = m.promise
             /\ handlers' = m.handlers
             /\ currentToken' = m.currentToken
             /\ sent' = m.sent
             /\ calls' = m.calls
  /\ connectWs' = connectWsAfter(onOutputPromise(line))
  /\ emitted' = IF connectWs = "pending" /\ connectWs' = "resolved"
                THEN emitted \cup {"debug-ready"} ELSE emitted
  /\ events' = recordEvents(line.record)
  /\ dispatched' = line.record
  /\ IF bpOps = <<>>
     THEN UNCHANGED <<breakpoints, bpOps, logMsgBrkList, brkId>>
     ELSE /\ breakpoints' = thenBreakpoints(settle')
          /\ bpOps' = thenBpOps(settle')
          /\ logMsgBrkList' = thenBrkList(settle')
          /\ brkId' = thenBrkId(settle')
  /\ IF line.record = NoRecord \/ recordLogMsg(logMsgBrkList', brkId', line.record) = LogMsg
     THEN UNCHANGED <<logMsgVar, logMsgVarProcess, logMsgRplNum, logMsgRplItem>>
     ELSE LET lm == recordLogMsg(logMsgBrkList', brkId', line.record)
          IN /\ logMsgVar' = lm.var
             /\ logMsgVarProcess' = lm.proc
             /\ logMsgRplNum' = lm.num
             /\ logMsgRplItem' = lm.items

MIInit ==
  /\ socket = "undefined"
  /\ currentToken = 1
  /\ handlers = [t \in Tokens |-> NoHandler]
  /\ sent = <<>>
  /\ calls = <<>>
  /\ promise = [k \in Calls |-> "unborn"]
  /\ connectWs = "none"
  /\ emitted = {}
  /\ events = <<>>
  /\ log = <<>>
  /\ settle = NoSettle
  /\ dispatched = NoRecord
  /\ breakpoints = <<>>
  /\ bpOps = <<>>
  /\ logMsgBrkList = <<>>
  /\ brkId = [b \in BpObjects |-> 0]
  /\ logMsgVar = <<>>
  /\ logMsgVarProcess = <<>>
  /\ logMsgRplNum = 0
  /\ logMsgRplItem = <<>>

\* connectWs(...): creates the socket and registers the listeners
ConnectWs ==
  /\ socket = "undefined"
  /\ socket' = "CONNECTING"
  /\ connectWs' = "pending"
  /\ UNCHANGED <<currentToken, handlers, sent, calls, promise, emitted>>
  /\ events' = <<>> /\ log' = <<>> /\ settle' = NoSettle /\ dispatched' = NoRecord
  /\ UNCHANGED <<breakpoints, bpOps>>
  /\ UNCHANGED <<sessVars, launchVars, ioVars, pathVars, fsVars, logVars, guardVars>>

\* 'open' listener: the initial command batch is sent
SocketOpen ==
  /\ socket = "CONNECTING"
  /\ socket' = "OPEN"
  /\ LET m == sendCommands(Correlator, InitCommands)
     IN /\ currentToken' = m.currentToken
        /\ handlers' = m.handlers
        /\ sent' = m.sent
        /\ calls' = m.calls
        /\ promise' = m.promise
  /\ UNCHANGED <<connectWs, emitted>>
  /\ events' = <<>> /\ log' = <<>> /\ settle' = NoSettle /\ dispatched' = NoRecord
  /\ UNCHANGED <<breakpoints, bpOps>>
  /\ UNCHANGED <<sessVars, launchVars, ioVars, pathVars, fsVars, logVars, guardVars>>

\* a debug adapter operation calls sendCommand
SendCommand(command, suppressFailure) ==
  /\ socket \in {"OPEN", "CLOSING", "CLOSED"}
  /\ Len(calls) < Len(InitCommands) + MaxCmds
  /\ LET m == sendCommand(Correlator, command, suppressFailure)
     IN /\ currentToken' = m.currentToken
        /\ handlers' = m.handlers
        /\ sent' = m.sent
        /\ calls' = m.calls
        /\ promise' = m.promise
  /\ UNCHANGED <<socket, connectWs, emitted>>
  /\ events' = <<>> /\ log' = <<>> /\ settle' = NoSettle /\ dispatched' = NoRecord
  /\ UNCHANGED <<breakpoints, bpOps>>
  /\ UNCHANGED <<sessVars, launchVars, ioVars, pathVars, fsVars, logVars, guardVars>>

\* 'message' listener: stdout -> onOutput for one complete protocol line
OnOutput(line) ==
  /\ socket = "OPEN"
  /\ Dispatch(line)
  /\ log' = onOutputLog(line) \o logMsgLog(line)
  /\ UNCHANGED socket
  /\ UNCHANGED <<sessVars, launchVars, ioVars, pathVars, fsVars, guardVars>>

\* addBreakPoint(b) with b.countCondition = cc
AddBreakPoint(b, cc) ==
  /\ socket = "OPEN"
  /\ Len(bpOps) < MaxBpOps
  /\ Len(calls) + Reserved + (IF needsFollowUp(b) THEN 2 ELSE 1)
       <= Len(InitCommands) + MaxBpOps
  /\ LET loc == countLocation(cc)
         early == bpOps # <<>> /\ bpOps[Len(bpOps)].state = "pending"
         o == [op |-> "add", arg |-> b, cc |-> cc, call |-> 0, last |-> 0,
               state |-> "pending", value |-> FALSE, early |-> early,
               follow |-> 0, num |-> 0]
     IN IF bpHas(b)
        THEN /\ bpOps' = Append(bpOps, [o EXCEPT !.state = "resolved"])
             /\ log' = <<>>
             /\ UNCHANGED <<currentToken, handlers, sent, calls, promise>>
        ELSE IF loc.throws
        THEN /\ bpOps' = Append(bpOps, [o EXCEPT !.state = "rejected"])
             /\ log' = <<>>
             /\ UNCHANGED <<currentToken, handlers, sent, calls, promise>>
        ELSE LET m == sendCommand(Correlator,
                                  "break-insert -f " \o loc.location \o LocationOf(b), FALSE)
             IN /\ bpOps' = Append(bpOps, [o EXCEPT !.call = Len(m.calls), !.last = Len(m.calls)])
                /\ log' = loc.log
                /\ currentToken' = m.currentToken
                /\ handlers' = m.handlers
                /\ sent' = m.sent
                /\ calls' = m.calls
                /\ promise' = m.promise
  /\ events' = <<>> /\ settle' = NoSettle /\ dispatched' = NoRecord
  /\ UNCHANGED <<socket, connectWs, emitted, breakpoints>>
  /\ UNCHANGED <<sessVars, launchVars, ioVars, pathVars, fsVars, logVars, guardVars>>

\* removeBreakPoint(b)
RemoveBreakPoint(b) ==
  /\ socket = "OPEN"
  /\ Len(bpOps) < MaxBpOps
  /\ Len(calls) + Reserved < Len(InitCommands) + MaxBpOps
  /\ LET early == bpOps # <<>> /\ bpOps[Len(bpOps)].state = "pending"
         o == [op |-> "remove", arg |-> b, cc |-> <<>>, call |-> 0, last |-> 0,
               state |-> "pending", value |-> FALSE, early |-> early,
               follow |-> 0, num |-> 0]
     IN IF ~bpHas(b)
        THEN /\ bpOps' = Append(bpOps, [o EXCEPT !.state = "resolved"])
             /\ UNCHANGED <<currentToken, handlers, sent, calls, promise>>
        ELSE LET m == sendCommand(Correlator, "break-delete " \o ToString(bpGet(b)), FALSE)
             IN /\ bpOps' = Append(bpOps, [o EXCEPT !.call = Len(m.calls), !.last = Len(m.calls)])
                /\ currentToken' = m.currentToken
                /\ handlers' = m.handlers
                /\ sent' = m.sent
                /\ calls' = m.calls
                /\ promise' = m.promise
  /\ events' = <<>> /\ log' = <<>> /\ settle' = NoSettle /\ dispatched' = NoRecord
  /\ UNCHANGED <<socket, connectWs, emitted, breakpoints>>
  /\ UNCHANGED <<sessVars, launchVars, ioVars, pathVars, fsVars, logVars, guardVars>>

\* clearBreakPoints(source): the Map is replaced by one without the entries
\* of the source file, and a break-delete is sent for each of those, in the
\* order of the Map; without such an entry Promise.all([]) resolves at once
ClearBreakPoints(source) ==
  /\ socket = "OPEN"
  /\ Len(bpOps) < MaxBpOps
  /\ Len(calls) + Reserved + Len(clearDeleted(source)) <= Len(InitCommands) + MaxBpOps
  /\ LET early == bpOps # <<>> /\ bpOps[Len(bpOps)].state = "pending"
         o == [op |-> "clear", arg |-> source, cc |-> <<>>, call |-> 0, last |-> 0,
               state |-> "pending", value |-> FALSE, early |-> early,
               follow |-> 0, num |-> 0]
         m == sendCommands(Correlator, deleteCommands(clearDeleted(source)))
     IN /\ bpOps' = Append(bpOps,
                           IF clearDeleted(source) = <<>>
                           THEN [o EXCEPT !.state = "resolved", !.value = TRUE]
                           ELSE [o EXCEPT !.call = Len(calls) + 1, !.last = Len(m.calls)])
        /\ currentToken' = m.currentToken
        /\ handlers' = m.handlers
        /\ sent' = m.sent
        /\ calls' = m.calls
        /\ promise' = m.promise
  /\ breakpoints' = clearKept(source)
  /\ events' = <<>> /\ log' = <<>> /\ settle' = NoSettle /\ dispatched' = NoRecord
  /\ UNCHANGED <<socket, connectWs, emitted>>
  /\ UNCHANGED <<sessVars, launchVars, ioVars, pathVars, fsVars, logVars, guardVars>>

\* 'error' listener: emit('launcherror'); the transport then closes
SocketError ==
  /\ socket \in {"CONNECTING", "OPEN"}
  /\ socket' = "CLOSING"
  /\ emitted' = emitted \cup {"launcherror"}
  /\ UNCHANGED <<currentToken, handlers, sent, calls, promise, connectWs>>
  /\ events' = <<>> /\ log' = <<>> /\ settle' = NoSettle /\ dispatched' = NoRecord
  /\ UNCHANGED <<breakpoints, bpOps>>
  /\ UNCHANGED <<sessVars, launchVars, ioVars, pathVars, fsVars, logVars, guardVars>>

\* 'close' listener: emit('quit')
SocketClose ==
  /\ socket \in {"OPEN", "CLOSING"}
  /\ socket' = "CLOSED"
  /\ emitted' = emitted \cup {"quit"}
  /\ UNCHANGED <<currentToken, handlers, sent, calls, promise, connectWs>>
  /\ events' = <<>> /\ log' = <<>> /\ settle' = NoSettle /\ dispatched' = NoRecord
  /\ UNCHANGED <<breakpoints, bpOps>>
  /\ UNCHANGED <<sessVars, launchVars, ioVars, pathVars, fsVars, logVars, guardVars>>

\* detach(): sendRaw('-target-detach'); socket?.close()
Detach ==
  /\ socket \in {"OPEN", "CLOSING", "CLOSED"}
  /\ Len(SelectSeq(sent, IsDetachLine)) < MaxDetach
  /\ sent' = sendRaw(sent, "-target-detach")
  /\ socket' = IF socket = "OPEN" THEN "CLOSING" ELSE socket
  /\ UNCHANGED <<currentToken, handlers, calls, promise, connectWs, emitted>>
  /\ events' = <<>> /\ log' = <<>> /\ settle' = NoSettle /\ dispatched' = NoRecord
  /\ UNCHANGED <<breakpoints, bpOps>>
  /\ UNCHANGED <<sessVars, launchVars, ioVars, pathVars, fsVars, logVars, guardVars>>

MINext ==
  \/ ConnectWs
  \/ SocketOpen
  \/ \E c \in UserCommands, s \in BOOLEAN : SendCommand(c, s)
  \/ \E line \in Lines : OnOutput(line)
  \/ SocketError
  \/ SocketClose
  \/ Detach


\* ------------------------------------------------------- MI transport input
\* one-line messages of the backend, as their characters: a result record with
\* the token of a pending command, an async record, a stream record, console
\* text, the prompt, console text that holds an ampersand
Messages ==
  {<<"1", "^", "d", "o", "n", "e", "\n">>,
   <<"*", "s", "t", "o", "p", "p", "e", "d", "\n">>,
   <<"~", "\"", "x", "\"", "\n">>,
   <<"h", "e", "l", "l", "o", "\n">>,
   <<"(", "g", "d", "b", ")", " ", "\n">>,
   <<"a", "&", "b", "\n">>}

LF == "\n"
Undefined == <<"u", "n", "d", "e", "f", "i", "n", "e", "d">>
Prompt == <<"(", "g", "d", "b", ")">>

IsPrefix(p, cs) == Len(p) <= Len(cs) /\ SubSeq(cs, 1, Len(p)) = p
Contains(cs, p) == \E i \in 0..(Len(cs) - Len(p)) : SubSeq(cs, i + 1, i + Len(p)) = p
After(cs, n) == SubSeq(cs, n + 1, Len(cs))

\* nonOutput.exec(line) for /^(?:\d*|undefined)[\*\+\=]|[\~\@\&\^]/: the
\* anchor binds the first alternative only
nonOutput(line) ==
  \/ LET rest == After(line, Len(digitRun(line)))
     IN rest # <<>> /\ Head(rest) \in {"*", "+", "="}
  \/ /\ IsPrefix(Undefined, line)
     /\ Len(line) > Len(Undefined)
     /\ line[Len(Undefined) + 1] \in {"*", "+", "="}
  \/ \E i \in 1..Len(line) : line[i] \in {"~", "@", "&", "^"}

couldBeOutput(line) == ~nonOutput(line)

\* gdbMatch.exec(line) for /(?:\d*|undefined)\(gdb\)/
gdbMatch(line) == Contains(line, Prompt)

\* buffer.lastIndexOf('\n'), counted from 1; 0: none
lastIndexOfLF(cs) ==
  IF \E i \in 1..Len(cs) : cs[i] = LF
  THEN CHOOSE i \in 1..Len(cs) : cs[i] = LF /\ \A j \in (i + 1)..Len(cs) : cs[j] # LF
  ELSE 0

\* the keyword that follows the class character, up to the first comma
RECURSIVE wordOf(_)
wordOf(cs) ==
  IF cs = <<>> \/ Head(cs) = "," THEN <<>> ELSE <<Head(cs)>> \o wordOf(Tail(cs))

\* parseMI(line), reduced to what onOutput reads: the leading token, then a
\* result record (^class) or one out-of-band record (exec *, status +,
\* notify =, stream ~ @ &); a line of another shape yields no record
parseMI(line) ==
  LET digits == digitRun(line)
      token == IF digits = <<>> THEN NoToken ELSE parseInt(digits)
      rest == After(line, Len(digits))
      word == IF rest = <<>> THEN "" ELSE Str(wordOf(Tail(rest)))
      async(type) == [isStream |-> FALSE, type |-> type, asyncClass |-> word,
                      reason |-> NoReason, bkptno |-> NoBkptno, content |-> <<>>]
      stream(type) == [isStream |-> TRUE, type |-> type, asyncClass |-> "none",
                       reason |-> NoReason, bkptno |-> NoBkptno, content |-> <<"x">>]
      node(class, rec) == [token |-> token, resultClass |-> class, msg |-> "",
                           bkpt |-> NoBkpt, record |-> rec]
  IN IF rest = <<>> THEN node("none", NoRecord)
     ELSE CASE Head(rest) = "^" /\ word \in {"done", "running", "connected", "error", "exit"}
                 -> node(word, NoRecord)
            [] Head(rest) = "*" -> node("none", async("exec"))
            [] Head(rest) = "+" -> node("none", async("status"))
            [] Head(rest) = "=" -> node("none", async("notify"))
            [] Head(rest) = "~" -> node("none", stream("console"))
            [] Head(rest) = "@" -> node("none", stream("target"))
            [] Head(rest) = "&" -> node("none", stream("log"))
            [] OTHER -> node("none", NoRecord)

\* what stdout does with a piece of input
Parsed(line) == [kind |-> "record", text |-> Str(line), node |-> parseMI(line)]
Console(line) == [kind |-> "console", text |-> Str(line), node |-> EmptyLine]
Partial(text) == [kind |-> "partial", text |-> Str(text), node |-> EmptyLine]

\* onOutput(str) for a str that is one line: protocol records are parsed,
\* other text is logged unless it matches the prompt
lineOutput(line) ==
  IF couldBeOutput(line)
  THEN IF gdbMatch(line) THEN <<>> ELSE <<Console(line)>>
  ELSE <<Parsed(line)>>

\* stdout(data) on the buffer buf: the line completed by data goes to onOutput,
\* then onOutputPartial logs and drops a remainder that could be console text
stdout(buf, data) ==
  LET all == buf \o data
      end == lastIndexOfLF(all)
      out == IF end # 0 THEN lineOutput(SubSeq(all, 1, end - 1)) ELSE <<>>
      left == After(all, end)
  IN IF left # <<>> /\ couldBeOutput(left)
     THEN [buffer |-> <<>>, out |-> out \o <<Partial(left)>>]
     ELSE [buffer |-> left, out |-> out]

\* the node, if any, that the onOutput call of a stdout call dispatches
nodeOf(out) ==
  IF out # <<>> /\ out[1].kind = "record" THEN out[1].node ELSE EmptyLine

\* log('stdout', ...) and logNoNewLine('stdout', ...) of a stdout call
consoleLog(out) ==
  [i \in 1..Len(out) |-> <<"stdout", out[i].text>>]

IoInit ==
  /\ wire = <<>>
  /\ buffer = <<>>
  /\ message = <<>>
  /\ fragments = 0
  /\ received = <<>>
  /\ written = 0

\* the backend writes one line, once the previous one has been delivered
BackendWrites(m) ==
  /\ socket = "OPEN"
  /\ wire = <<>>
  /\ Len(InitCommands) <= Len(calls)
  /\ written < MaxMsgs
  /\ written' = written + 1
  /\ wire' = m
  /\ message' = m
  /\ fragments' = 0
  /\ received' = <<>>
  /\ UNCHANGED buffer
  /\ UNCHANGED <<miVars, sessVars, launchVars, pathVars, fsVars, logVars, guardVars>>

\* sizes of the fragments a message can arrive in
FragmentSizes == UNION {1..Len(m) : m \in Messages}

\* 'message' listener: stdout(ev.data) with the next n characters on the wire
Stdout(n) ==
  /\ socket = "OPEN"
  /\ n \in 1..Len(wire)
  /\ LET r == stdout(buffer, SubSeq(wire, 1, n))
         line == nodeOf(r.out)
     IN /\ wire' = After(wire, n)
        /\ buffer' = r.buffer
        /\ fragments' = fragments + 1
        /\ received' = received \o r.out
        /\ Dispatch(line)
        /\ log' = onOutputLog(line) \o logMsgLog(line)
                    \o consoleLog(SelectSeq(r.out, LAMBDA o : o.kind # "record"))
  /\ UNCHANGED socket
  /\ UNCHANGED <<message, written>>
  /\ UNCHANGED <<sessVars, launchVars, pathVars, fsVars, guardVars>>

\* the backend's lines arrive in fragments of any size
StdoutNext ==
  \/ ConnectWs
  \/ SocketOpen
  \/ \E m \in Messages : BackendWrites(m)
  \/ \E n \in FragmentSizes : Stdout(n)

\* ------------------------------------------------------- MI correlator claims
IsCommandLine(raw) == ~IsDetachLine(raw)
Settled(k) == promise[k] \in {"resolved", "rejected"}

\* C1: for commands outstanding at the same time and result records arriving
\* in any order, a result record bearing token t settles exactly the future of
\* the sendCommand call that was assigned token t, and no other future.
C1_TokenCorrelation ==
  [][/\ (settle'.how # "none" /\ settle'.node.resultClass # "none") =>
          \A k \in Calls :
            (promise'[k] # promise[k]) <=>
              (k <= Len(calls) /\ calls[k].sel = settle'.node.token
                 /\ promise[k] = "pending")
     /\ settle'.how = "none" =>
          \A k \in Calls : promise[k] = "pending" => promise'[k] = "pending"]_miVars

\* a later command was answered while an earlier one is still outstanding
C1_Witness ==
  \E j, k \in 1..Len(calls) : j < k /\ promise[j] = "pending" /\ Settled(k)

\* C8: when the MI transport closes, every MI command still pending is failed:
\* its future is rejected and its token handler is discarded.
C8_CloseFailsPending ==
  [][SocketClose =>
       /\ \A k \in Calls : promise[k] = "pending" => promise'[k] = "rejected"
       /\ \A t \in Tokens : handlers'[t] = NoHandler]_miVars

\* C10: the k-th sendCommand call writes "<k>-<text>\n": tokens start at 1 and
\* increase by one per command, and no two pending handlers share a token.
C10_TokensSequential ==
  /\ \A k \in 1..Len(calls) :
       /\ calls[k].sel = k
       /\ SelectSeq(sent, IsCommandLine)[k] = ToString(k) \o "-" \o calls[k].command \o "\n"
       /\ promise[k] = "pending" => handlers[calls[k].sel] = k
  /\ \A j, k \in 1..Len(calls) :
       j # k /\ promise[j] = "pending" /\ promise[k] = "pending"
         => calls[j].sel # calls[k].sel

\* commands beyond the initial batch were sent and several are pending
C10_Witness ==
  /\ Len(calls) > Len(InitCommands)
  /\ Cardinality({k \in 1..Len(calls) : promise[k] = "pending"}) >= 2
  /\ \E i \in 1..Len(sent) : IsDetachLine(sent[i])

\* C30: when the MI socket signals an error or closes before connectWs has
\* resolved, the promise of connectWs is rejected
C30_ConnectFailureRejects ==
  (emitted \cap {"launcherror", "quit"} # {} /\ connectWs # "resolved")
    => connectWs = "rejected"

\* ------------------------------------------------ record dispatch claims
\* the correlator fed with every kind of line and no further command
OutputNext ==
  \/ ConnectWs
  \/ SocketOpen
  \/ \E line \in AllLines : OnOutput(line)

WarningOf(k) ==
  <<"stderr", "WARNING: Error executing command '" \o calls[k].command \o "'">>

\* C11: when the result record matching a command has class error, the future
\* resolves with that record and a warning is logged if the command was sent
\* with suppressFailure, and is rejected with an MIError carrying the backend
\* message and the command text otherwise; a result record of any other class
\* resolves the future with that record.
C11_ErrorRecord ==
  (settle.how # "none" /\ settle.node.resultClass # "none") =>
    LET k == settle.call
        node == settle.node
    IN IF node.resultClass = "error"
       THEN IF calls[k].suppressFailure
            THEN /\ settle.how = "resolve"
                 /\ promise[k] = "resolved"
                 /\ \E i \in 1..Len(log) : log[i] = WarningOf(k)
            ELSE /\ settle.how = "reject"
                 /\ promise[k] = "rejected"
                 /\ node.msg # "" => settle.message = node.msg
                 /\ settle.command = calls[k].command
       ELSE /\ settle.how = "resolve"
            /\ promise[k] = "resolved"
            /\ log = <<>>

\* an error record has just resolved the future of a suppressFailure command
C11_Witness ==
  /\ settle.how = "resolve"
  /\ settle.node.resultClass = "error"
  /\ calls[settle.call].suppressFailure
  /\ \E k \in 1..Len(calls) : promise[k] = "rejected"

\* C12: an async record or stream record never settles a pending MI command,
\* even when its line carries a numeric prefix equal to a pending token:
\* handlers are consumed only by result records.
C12_OnlyResultRecordsSettle ==
  /\ settle.how # "none" => settle.node.resultClass # "none"
  /\ dispatched # NoRecord => settle.how = "none"

\* the event the claim gives for each reason of a stopped record
ClaimedStopEvent(reason) ==
  CASE reason = "breakpoint-hit" -> "breakpoint"
    [] reason \in {"watchpoint-trigger", "read-watchpoint-trigger",
                   "access-watchpoint-trigger"} -> "watchpoint"
    [] reason \in {"end-stepping-range", "location-reached", "function-finished"} -> "step-end"
    [] reason = "signal-received" -> "signal-stop"
    [] reason \in {"exited-normally", "exited"} -> "exited-normally"
    [] reason = NoReason -> "step-other"
    [] OTHER -> "stopped"
ClaimedReasons ==
  {"breakpoint-hit", "watchpoint-trigger", "read-watchpoint-trigger",
   "access-watchpoint-trigger", "end-stepping-range", "location-reached",
   "function-finished", "signal-received", "exited-normally", "exited"}
IsStopped(rec) == ~rec.isStream /\ rec.type = "exec" /\ rec.asyncClass = "stopped"

\* C16: for an exec stopped record the emitted event is determined by the
\* reason: breakpoint-hit -> breakpoint; the watchpoint-trigger family ->
\* watchpoint; end-stepping-range, location-reached, function-finished ->
\* step-end; signal-received -> signal-stop; exited-normally, exited -> the
\* exited event; no reason -> step-other.
C16_StopEvents ==
  (IsStopped(dispatched) /\ dispatched.reason \in ClaimedReasons \cup {NoReason}) =>
    events = <<"exec-async-output", ClaimedStopEvent(dispatched.reason)>>

\* a function-finished stop has just been dispatched
C16_Witness ==
  /\ IsStopped(dispatched)
  /\ dispatched.reason = "function-finished"
  /\ events = <<"exec-async-output", "step-end">>

\* C17 as stated: every stopped record whose reason is none of the claim's
\* ten has its reason logged and gives the generic 'stopped' event.
C17_UnknownReasonStopped ==
  (IsStopped(dispatched) /\ dispatched.reason \notin ClaimedReasons \cup {NoReason}) =>
    /\ events = <<"exec-async-output", "stopped">>
    /\ \E i \in 1..Len(log) :
         log[i] = <<"console", "Not implemented stop reason (assuming exception): "
                                 \o dispatched.reason>>

\* the reasons the switch also treats as the end of a step
StepEndReasons ==
  {"watchpoint-scope", "solib-event", "syscall-entry", "syscall-return",
   "fork", "vfork", "exec"}

\* C17 amended: a stopped record whose reason is none of the claim's ten and
\* none of watchpoint-scope, solib-event, syscall-entry, syscall-return, fork,
\* vfork, exec has its reason logged and gives 'stopped'; those seven give
\* 'step-end' and log nothing.
C17_Amended ==
  (IsStopped(dispatched) /\ dispatched.reason \notin ClaimedReasons \cup {NoReason}) =>
    IF dispatched.reason \in StepEndReasons
    THEN events = <<"exec-async-output", "step-end">> /\ log = <<>>
    ELSE /\ events = <<"exec-async-output", "stopped">>
         /\ \E i \in 1..Len(log) :
              log[i] = <<"console", "Not implemented stop reason (assuming exception): "
                                      \o dispatched.reason>>

\* a stop with a reason the switch does not know has just been dispatched
C17_Witness ==
  /\ IsStopped(dispatched)
  /\ dispatched.reason = "exited-signalled"
  /\ events = <<"exec-async-output", "stopped">>

\* C35: the future of a sendCommand is settled at most once, by a record that
\* carries its token while its handler is registered; the handler is removed
\* in that step, and no handler is called for a record whose token has none
C35_SettledOnce ==
  [][/\ \A k \in Calls :
          /\ promise[k] \in {"resolved", "rejected"} => promise'[k] = promise[k]
          /\ (promise[k] = "pending" /\ promise'[k] # "pending") =>
               /\ settle'.call = k
               /\ settle'.node.token = calls[k].sel
               /\ handlers[calls[k].sel] = k
               /\ handlers'[calls[k].sel] = NoHandler
     /\ settle'.how # "none" =>
          /\ handlers[settle'.node.token] = settle'.call
          /\ promise[settle'.call] = "pending"]_vars

\* the first command is settled and its handler gone; an error record that
\* found no handler has just been logged and has settled nothing
C35_Witness ==
  /\ promise[1] \in {"resolved", "rejected"}
  /\ handlers[1] = NoHandler
  /\ settle.how = "none"
  /\ log = << <<"stderr", "No symbol table is loaded.">> >>
  /\ \E k \in 1..Len(calls) : promise[k] = "pending"

\* the events that report a stop
StopEventNames ==
  {"breakpoint", "watchpoint", "step-end", "step-other", "signal-stop",
   "exited-normally", "stopped"}

\* C36: for every exec stopped record, whatever its reason and whatever
\* commands are pending, exactly one of the events breakpoint, watchpoint,
\* step-end, step-other, signal-stop, exited-normally and stopped is emitted
C36_OneStopEvent ==
  IsStopped(dispatched) =>
    Cardinality({i \in 1..Len(events) : events[i] \in StopEventNames}) = 1

\* a stop without reason has just been dispatched while the initial commands
\* are pending, on a line that carries the token of one of them
C36_Witness ==
  /\ IsStopped(dispatched)
  /\ dispatched.reason = NoReason
  /\ events = <<"exec-async-output", "step-other">>
  /\ \E k \in 1..Len(calls) : promise[k] = "pending"
  /\ settle.how # "none"

\* ---------------------------------------------------------- breakpoint claims
\* the Breakpoint objects the caller of one source file can hold: its own,
\* and every newBrk an addBreakPoint call has resolved with
KnownObjects ==
  {"bp1"} \cup {NewBrk(i) : i \in {j \in 1..Len(bpOps) :
                                       /\ bpOps[j].op = "add"
                                       /\ bpOps[j].call # 0
                                       /\ bpOps[j].state = "resolved"
                                       /\ bpOps[j].value}}

\* breakpoints without count condition are set and removed while the backend answers
BreakNext ==
  \/ ConnectWs
  \/ SocketOpen
  \/ \E b \in KnownObjects : AddBreakPoint(b, <<>>)
  \/ \E b \in KnownObjects : RemoveBreakPoint(b)
  \/ \E source \in Sources : ClearBreakPoints(source)
  \/ \E line \in BreakLines : OnOutput(line)

\* breakpoints of two source files are set and cleared by source file; the
\* backend answers the commands that are pending
ClearNext ==
  \/ ConnectWs
  \/ SocketOpen
  \/ \E b \in CallerBps : AddBreakPoint(b, <<>>)
  \/ \E source \in Sources : ClearBreakPoints(source)
  \/ \E line \in BreakLines : hasHandler(line) /\ OnOutput(line)

\* the backend's answers of another class than done and error
OtherBreakLines ==
  [token : BpTokens, resultClass : {"running"}, msg : {""}, bkpt : {NoBkpt},
   record : {NoRecord}]

\* breakpoints with and without a condition or a logMessage are set, removed
\* and cleared while the backend answers the commands that are pending
FollowUpNext ==
  \/ ConnectWs
  \/ SocketOpen
  \/ \E b \in {"bp1", "cb1", "lp1"} : AddBreakPoint(b, <<>>)
  \/ \E b \in KnownObjects \ {"bp1"} : RemoveBreakPoint(b)
  \/ ClearBreakPoints("main.c")
  \/ \E line \in BreakLines \cup OtherBreakLines : hasHandler(line) /\ OnOutput(line)

\* what the backend sends while log points are set and hit: the answers to
\* the commands, stops at a breakpoint, console stream records
LogLines ==
  [token : BpTokens, resultClass : {"done"}, msg : {""}, bkpt : BkptNums,
   record : {NoRecord}]
    \cup [token : {NoToken}, resultClass : {"none"}, msg : {""}, bkpt : {NoBkpt},
          record : HitRecords \cup ValueRecords]

\* log points are set and hit
LogPointNext ==
  \/ ConnectWs
  \/ SocketOpen
  \/ \E b \in LogBps : AddBreakPoint(b, <<>>)
  \/ \E line \in LogLines : OnOutput(line)

\* the first breakpoint of a connection carries a count condition
CountNext ==
  \/ ConnectWs
  \/ SocketOpen
  \/ (bpOps = <<>> /\ \E b \in CallerBps, cc \in CountConditions : AddBreakPoint(b, cc))
  \/ \E line \in BreakLines : OnOutput(line)

\* C13: addBreakPoint followed at once by removeBreakPoint for the same
\* breakpoint leaves, once both promises are settled, an empty breakpoint table
C13_AddThenRemove ==
  (/\ Len(bpOps) = 2
   /\ bpOps[1].op = "add"
   /\ bpOps[2].op = "remove"
   /\ bpOps[2].arg = bpOps[1].arg
   /\ bpOps[2].early
   /\ bpOps[1].state # "pending"
   /\ bpOps[2].state # "pending")
    => breakpoints = <<>>

AllDigits(cs) == cs # <<>> /\ \A i \in 1..Len(cs) : cs[i] \in Digits
\* the decimal form of a positive integer
PositiveInt(cs) == AllDigits(cs) /\ Head(cs) # "0"
\* an addBreakPoint call that did not return early on a known breakpoint
Inserting(o) == o.op = "add" /\ ~(o.call = 0 /\ o.state = "resolved")
InsertOf(o) == IF o.call = 0 THEN "" ELSE calls[o.call].command

\* C14: a count condition ">N" becomes 'break-insert -f -i N <location>' without
\* the temporary flag, a bare "N" becomes 'break-insert -f -t -i N <location>'
C14_CountCondition ==
  \A i \in 1..Len(bpOps) :
    Inserting(bpOps[i]) =>
      /\ (bpOps[i].cc # <<>> /\ Head(bpOps[i].cc) = ">" /\ PositiveInt(Tail(bpOps[i].cc)))
           => InsertOf(bpOps[i]) = "break-insert -f -i " \o Str(Tail(bpOps[i].cc)) \o " "
                                     \o LocationOf(bpOps[i].arg)
      /\ PositiveInt(bpOps[i].cc)
           => InsertOf(bpOps[i]) = "break-insert -f -t -i " \o Str(bpOps[i].cc) \o " "
                                     \o LocationOf(bpOps[i].arg)

\* a breakpoint with count condition "30" has been inserted and stored
C14_Witness ==
  /\ Len(bpOps) = 1
  /\ bpOps[1].cc = <<"3", "0">>
  /\ bpOps[1].state = "resolved"
  /\ bpOps[1].value
  /\ InsertOf(bpOps[1]) = "break-insert -f -t -i 30 \"main.c:42\""
  /\ \E n \in DOMAIN breakpoints : breakpoints[n].key = NewBrk(1)

\* a count condition that is neither ">N" nor a bare "N"
OtherShape(cc) ==
  /\ cc # <<>>
  /\ ~AllDigits(cc)
  /\ ~(Head(cc) = ">" /\ AllDigits(Tail(cc)))

\* C15: a count condition of any other shape logs the unsupported-expression
\* warning and still sends the insert as a plain temporary breakpoint; the
\* call does not fail on it
C15_UnsupportedCount ==
  [][\A i \in 1..Len(bpOps') :
       (i > Len(bpOps) /\ Inserting(bpOps'[i]) /\ OtherShape(bpOps'[i].cc)) =>
         /\ bpOps'[i].state = "pending"
         /\ bpOps'[i].call # 0
         /\ calls'[bpOps'[i].call].command
              = "break-insert -f -t " \o LocationOf(bpOps'[i].arg)
         /\ log' = <<UnsupportedCount(bpOps'[i].cc)>>]_vars

\* the operation begun in this step, and whether it finds nothing to delete:
\* a removeBreakPoint whose argument is not in the table, a clearBreakPoints
\* whose source file no entry has
Begun == bpOps'[Len(bpOps')]
NothingToDelete ==
  /\ Len(bpOps') = Len(bpOps) + 1
  /\ \/ Begun.op = "remove" /\ ~bpHas(Begun.arg)
     \/ Begun.op = "clear" /\ \A n \in DOMAIN breakpoints : FileOf(breakpoints[n].key) # Begun.arg

\* C26: removeBreakPoint of a breakpoint that is not in the table and
\* clearBreakPoints of a source file without breakpoints complete without
\* error, send nothing to the backend and leave the table as it is, the first
\* time as every time after
C26_AbsentIsNoError ==
  [][NothingToDelete =>
       /\ Begun.state = "resolved"
       /\ sent' = sent
       /\ calls' = calls
       /\ breakpoints' = breakpoints]_vars

\* a source file without breakpoints has been cleared and an unknown
\* breakpoint removed while the table holds an entry
C26_Witness ==
  /\ breakpoints # <<>>
  /\ \E i, j \in 1..Len(bpOps) :
       /\ bpOps[i].op = "clear" /\ bpOps[i].call = 0 /\ bpOps[i].state = "resolved"
       /\ bpOps[j].op = "remove" /\ bpOps[j].call = 0 /\ bpOps[j].state = "resolved"

\* the table holds the object b, before and after the step
InTable(b) == bpHas(b)
InTableNext(b) == \E n \in DOMAIN breakpoints' : breakpoints'[n].key = b
NumNext(b) == breakpoints'[CHOOSE n \in DOMAIN breakpoints' : breakpoints'[n].key = b].num
\* the addBreakPoint call i resolves [true, newBrk] in this step
ResolvesTrue(i) ==
  /\ bpOps[i].op = "add" /\ bpOps[i].state = "pending"
  /\ bpOps'[i].state = "resolved" /\ bpOps'[i].value
\* the backend id of the breakpoint that call inserted
BackendId(i) == IF bpOps[i].follow # 0 THEN bpOps[i].num ELSE settle'.node.bkpt

\* C34: the table holds a breakpoint, mapped to its backend id, exactly
\* from the step in which an addBreakPoint call resolves [true, breakpoint]
\* with it (insert done and, if the breakpoint has one, the condition or
\* log point command done) to the step in which a removeBreakPoint of it
\* resolves true or a clearBreakPoints of its file is called; a call that
\* resolves [false] or is rejected adds nothing
C34_TableTracksAdds ==
  [][/\ \A i \in 1..Len(bpOps) :
          ResolvesTrue(i) =>
            InTableNext(NewBrk(i)) /\ NumNext(NewBrk(i)) = BackendId(i)
     /\ \A b \in BpObjects :
          /\ (~InTable(b) /\ InTableNext(b)) =>
               \E i \in 1..Len(bpOps) : NewBrk(i) = b /\ ResolvesTrue(i)
          /\ (InTable(b) /\ ~InTableNext(b)) =>
               \/ \E i \in 1..Len(bpOps) :
                    /\ bpOps[i].op = "remove" /\ bpOps[i].arg = b
                    /\ bpOps[i].state = "pending"
                    /\ bpOps'[i].state = "resolved" /\ bpOps'[i].value
               \/ /\ Len(bpOps') = Len(bpOps) + 1
                  /\ Begun.op = "clear" /\ Begun.arg = FileOf(b)
          /\ (InTable(b) /\ InTableNext(b)) => NumNext(b) = bpGet(b)]_vars

\* a breakpoint with a condition or a logMessage is in the table under the id
\* of its insert after both commands were done, and an addBreakPoint that
\* was rejected or resolved [false] has left no entry
C34_Witness ==
  \E i, j \in 1..Len(bpOps) :
    /\ bpOps[i].op = "add" /\ bpOps[i].follow # 0
    /\ bpOps[i].state = "resolved" /\ bpOps[i].value
    /\ bpHas(NewBrk(i)) /\ bpGet(NewBrk(i)) = bpOps[i].num
    /\ bpOps[j].op = "add" /\ bpOps[j].call # 0
    /\ \/ bpOps[j].state = "rejected"
       \/ bpOps[j].state = "resolved" /\ ~bpOps[j].value
    /\ ~bpHas(NewBrk(j))

\* a console stream record that shows a value, and a stop at a breakpoint
\* that is a log point, went through onOutput in this step
ValueStep ==
  /\ dispatched'.isStream /\ dispatched'.type = "console"
  /\ logMsgMatch(dispatched'.content).matched
HitStep ==
  /\ dispatched' \in HitRecords
  /\ \E n \in DOMAIN logMsgBrkList' : brkId'[logMsgBrkList'[n]] = dispatched'.bkptno
\* the template with each placeholder replaced, in order, by the values
RECURSIVE Formatted(_, _)
Formatted(tpl, values) ==
  IF tpl = <<>> THEN ""
  ELSE IF Head(tpl).ph
       THEN (IF values = <<>> THEN "" ELSE Head(values))
              \o Formatted(Tail(tpl), IF values = <<>> THEN <<>> ELSE Tail(values))
  ELSE Str(Head(tpl).text) \o Formatted(Tail(tpl), values)
\* with this step the values of all placeholders of the log point hit last
\* have been received
AllReceived ==
  /\ HitStep \/ ValueStep
  /\ logMsgVar' # <<>>
  /\ Len(logMsgRplItem') = Len(placeHolders(logMsgVar'))
\* the step logs the formatted message; the step logs some message
MessageLogged ==
  \E n \in DOMAIN log' :
    log'[n] = <<"console", "Log Message:" \o Formatted(logMsgVar', logMsgRplItem')>>
SomeMessageLogged ==
  dispatched'.isStream /\ \E n \in DOMAIN log' : log'[n] # <<dispatched'.type, "content">>

\* C33: when a log point is hit, the number of values waited for is the
\* number of print sub-commands issued for it, and the formatted message is
\* logged once, in the step in which the last of the values of its
\* placeholders is received
C33_LogMessageOnce ==
  [][/\ HitStep => logMsgRplNum' = Len(printsOf(logMsgVar'))
     /\ AllReceived <=> MessageLogged
     /\ SomeMessageLogged => MessageLogged]_vars

\* the commands sent in this step
SentNow == SubSeq(calls', Len(calls) + 1, Len(calls'))

\* C40: after clearBreakPoints(source) the table holds exactly the entries
\* whose file differs from source, each with the backend id it had, and one
\* break-delete was sent for each entry that was dropped and for no other
C40_ClearFrame ==
  [][(Len(bpOps') = Len(bpOps) + 1 /\ Begun.op = "clear") =>
       /\ \A b \in BpObjects :
            (\E n \in DOMAIN breakpoints' : breakpoints'[n].key = b)
              <=> (bpHas(b) /\ FileOf(b) # Begun.arg)
       /\ \A n \in DOMAIN breakpoints' : breakpoints'[n].num = bpGet(breakpoints'[n].key)
       /\ Len(SentNow) = Cardinality({b \in BpObjects : bpHas(b) /\ FileOf(b) = Begun.arg})
       /\ \A b \in BpObjects :
            bpHas(b) /\ FileOf(b) = Begun.arg =>
              \E k \in DOMAIN SentNow : SentNow[k].command = "break-delete " \o ToString(bpGet(b))
       /\ \A k \in DOMAIN SentNow :
            \E b \in BpObjects :
              /\ bpHas(b) /\ FileOf(b) = Begun.arg
              /\ SentNow[k].command = "break-delete " \o ToString(bpGet(b))]_vars

\* breakpoints of two files were stored, then one file was cleared: its
\* entry is gone, the other one is still there and one break-delete is pending
C40_Witness ==
  /\ Len(bpOps) = 3
  /\ bpOps[1].op = "add" /\ bpOps[1].state = "resolved" /\ bpOps[1].call # 0
  /\ bpOps[2].op = "add" /\ bpOps[2].state = "resolved" /\ bpOps[2].call # 0
  /\ ~bpOps[2].early /\ ~bpOps[3].early
  /\ FileOf(bpOps[1].arg) # FileOf(bpOps[2].arg)
  /\ bpOps[3].op = "clear" /\ bpOps[3].call # 0 /\ bpOps[3].last = bpOps[3].call
  /\ promise[bpOps[3].call] = "pending"
  /\ Len(breakpoints) = 1
  /\ FileOf(breakpoints[1].key) # bpOps[3].arg

\* the removeBreakPoint whose break-delete the backend answers in this step
\* with an error record, 0 if the step is no such answer
RemoveFailing ==
  IF settle'.how = "reject" /\ opOfCall(settle'.call) # 0
  THEN IF bpOps[opOfCall(settle'.call)].op = "remove" THEN opOfCall(settle'.call) ELSE 0
  ELSE 0

\* C31: when the backend answers the break-delete of a removeBreakPoint with
\* an error record, the promise of removeBreakPoint is settled as a failure
\* (rejected, or resolved false) and the breakpoint stays in the table
C31_RemoveErrorSettles ==
  [][RemoveFailing # 0 =>
       /\ \/ bpOps'[RemoveFailing].state = "rejected"
          \/ bpOps'[RemoveFailing].state = "resolved" /\ ~bpOps'[RemoveFailing].value
       /\ breakpoints' = breakpoints]_vars

\* ----------------------------------------------------- MI transport claims
\* the line of the message written last, without its newline
MessageLine == SubSeq(message, 1, Len(message) - 1)
Delivered == message # <<>> /\ wire = <<>>

\* a line that holds a result record or an out-of-band record
IsRecordLine(line) ==
  parseMI(line).resultClass # "none" \/ parseMI(line).record # NoRecord

\* C21: a protocol line delivered in several fragments is parsed exactly once,
\* as the whole line: stdout does with it what it does with the same
\* characters in a single message
C21_FragmentedDelivery ==
  (Delivered /\ IsRecordLine(MessageLine)) => received = stdout(<<>>, message).out

\* a line is a protocol record exactly when it begins with optional digits or
\* 'undefined' followed by one of * + =, or starts with one of ~ @ & ^
ClaimedRecord(line) ==
  \/ LET rest == After(line, Len(digitRun(line)))
     IN rest # <<>> /\ Head(rest) \in {"*", "+", "="}
  \/ /\ IsPrefix(Undefined, line)
     /\ Len(line) > Len(Undefined)
     /\ line[Len(Undefined) + 1] \in {"*", "+", "="}
  \/ line # <<>> /\ Head(line) \in {"~", "@", "&", "^"}

\* C22: a complete line is parsed as a protocol record exactly when it has
\* the record prefix; any other line is logged verbatim as console text,
\* unless it matches the prompt pattern, and then it is dropped
C22_LineClassification ==
  (Delivered /\ fragments = 1) =>
    received = IF ClaimedRecord(MessageLine) THEN <<Parsed(MessageLine)>>
               ELSE IF gdbMatch(MessageLine) THEN <<>>
               ELSE <<Console(MessageLine)>>

\* ================================================= session protocol client
Reqs == 1..MaxReq
NoReq == 0
\* the status field of a response envelope
Statuses == {"success", "error"}

\* get socketReady(): readyState === WebSocket.OPEN
\* a readiness test that still counts a closing socket as usable
socketReady_closing == sessionSocket \in {"OPEN", "CLOSING"}

socketReady == sessionSocket = "OPEN"

\* number of sendSessionRequest calls made so far
submitted == Cardinality({r \in Reqs : request[r] # "unborn"})

\* requestQueue.pop(): the newest callback instead of the oldest
shift_newest(q) == [cb |-> q[Len(q)], rest |-> SubSeq(q, 1, Len(q) - 1)]

\* requestQueue.shift()
shift(q) == [cb |-> Head(q), rest |-> Tail(q)]

\* onClose that fails the head of the queue only
onCloseQueue_headOnly(q) ==
  IF q = <<>> THEN [failed |-> {}, rest |-> q]
  ELSE [failed |-> {Head(q)}, rest |-> Tail(q)]

\* onClose: while (requestQueue.length) requestQueue.shift()?.(undefined, Error)
onCloseQueue(q) == [failed |-> {q[i] : i \in 1..Len(q)}, rest |-> <<>>]

\* sendSessionRequest after sendInner resolved with the response text:
\* status "success" returns obj.data, anything else throws Error(obj.error)
\* the error field of the response that answers request r with a failure
ErrorOf(r) == "request " \o ToString(r) \o " failed"
\* the response envelope {status, data, error} that answers request r; the
\* data of a success is written as the request it answers
Envelope(r, status) ==
  [for |-> r, status |-> status,
   data |-> IF status = "success" THEN r ELSE NoReq,
   error |-> IF status = "success" THEN "" ELSE ErrorOf(r)]

\* a client that takes every response for a success
requestOutcome_lenient(status) == "resolved"

requestOutcome(status) == IF status = "success" THEN "resolved" ELSE "rejected"

SessionInit ==
  /\ sessionSocket = "OPEN"
  /\ requestQueue = <<>>
  /\ request = [r \in Reqs |-> "unborn"]
  /\ reqError = [r \in Reqs |-> ""]
  /\ reqAnswer = [r \in Reqs |-> NoReq]
  /\ reqData = [r \in Reqs |-> NoReq]
  /\ sessionSent = <<>>
  /\ served = 0
  /\ inbox = <<>>

\* sendSessionRequest(req) -> sendInner(msg)
SendSessionRequest ==
  /\ submitted < MaxReq
  /\ LET r == submitted + 1 IN
       IF socketReady
       THEN /\ requestQueue' = Append(requestQueue, r)
            /\ sessionSent' = Append(sessionSent, r)
            /\ request' = [request EXCEPT ![r] = "pending"]
            /\ UNCHANGED reqError
       ELSE /\ request' = [request EXCEPT ![r] = "rejected"]
            /\ reqError' = [reqError EXCEPT ![r] = "Not connected"]
            /\ UNCHANGED <<requestQueue, sessionSent>>
  /\ UNCHANGED <<sessionSocket, reqAnswer, reqData, served, inbox>>
  /\ UNCHANGED <<miVars, launchVars, ioVars, pathVars, fsVars, logVars, guardVars>>

\* the remote end answers the oldest message it has not answered yet
ServerReply(status) ==
  /\ sessionSocket \in {"OPEN", "CLOSING"}
  /\ served < Len(sessionSent)
  /\ served' = served + 1
  /\ inbox' = Append(inbox, Envelope(sessionSent[served + 1], status))
  /\ UNCHANGED <<sessionSocket, requestQueue, request, reqError, reqAnswer, reqData,
               sessionSent>>
  /\ UNCHANGED <<miVars, launchVars, ioVars, pathVars, fsVars, logVars, guardVars>>

\* 'message' listener: onData(ev.data.toString())
OnData ==
  /\ sessionSocket \in {"OPEN", "CLOSING"}
  /\ inbox # <<>>
  /\ inbox' = Tail(inbox)
  /\ IF requestQueue = <<>>
     THEN UNCHANGED <<requestQueue, request, reqError, reqAnswer, reqData>>
     ELSE LET s == shift(requestQueue)
              msg == Head(inbox)
          IN /\ requestQueue' = s.rest
             /\ request' = [request EXCEPT ![s.cb] = requestOutcome(msg.status)]
             /\ reqError' = [reqError EXCEPT ![s.cb] =
                               IF requestOutcome(msg.status) = "resolved" THEN ""
                               ELSE msg.error]
             /\ reqAnswer' = [reqAnswer EXCEPT ![s.cb] = msg.for]
             /\ reqData' = [reqData EXCEPT ![s.cb] =
                              IF requestOutcome(msg.status) = "resolved" THEN msg.data
                              ELSE NoReq]
  /\ UNCHANGED <<sessionSocket, sessionSent, served>>
  /\ UNCHANGED <<miVars, launchVars, ioVars, pathVars, fsVars, logVars, guardVars>>

\* 'error' listener: onError()
OnError ==
  /\ sessionSocket \in {"OPEN", "CLOSING"}
  /\ sessionSocket' = "ERRORED"
  /\ inbox' = <<>>
  /\ IF requestQueue = <<>>
     THEN UNCHANGED <<requestQueue, request, reqError>>
     ELSE LET s == shift(requestQueue)
          IN /\ requestQueue' = s.rest
             /\ request' = [request EXCEPT ![s.cb] = "rejected"]
             /\ reqError' = [reqError EXCEPT ![s.cb] = "WebSocket error"]
  /\ UNCHANGED <<reqAnswer, reqData, sessionSent, served>>
  /\ UNCHANGED <<miVars, launchVars, ioVars, pathVars, fsVars, logVars, guardVars>>

\* 'close' listener: onClose()
OnClose ==
  /\ sessionSocket \in {"OPEN", "CLOSING", "ERRORED"}
  /\ sessionSocket' = "CLOSED"
  /\ inbox' = <<>>
  /\ LET c == onCloseQueue(requestQueue)
     IN /\ requestQueue' = c.rest
        /\ request' = [r \in Reqs |-> IF r \in c.failed THEN "rejected" ELSE request[r]]
        /\ reqError' = [r \in Reqs |-> IF r \in c.failed THEN "WebSocket closed"
                                       ELSE reqError[r]]
  /\ UNCHANGED <<reqAnswer, reqData, sessionSent, served>>
  /\ UNCHANGED <<miVars, launchVars, ioVars, pathVars, fsVars, logVars, guardVars>>

\* dispose(): sessionSocket.close()
Dispose ==
  /\ sessionSocket = "OPEN"
  /\ sessionSocket' = "CLOSING"
  /\ UNCHANGED <<requestQueue, request, reqError, reqAnswer, reqData, sessionSent, served,
               inbox>>
  /\ UNCHANGED <<miVars, launchVars, ioVars, pathVars, fsVars, logVars, guardVars>>

SessionNext ==
  \/ SendSessionRequest
  \/ \E status \in Statuses : ServerReply(status)
  \/ OnData
  \/ OnError
  \/ OnClose
  \/ Dispose


\* --------------------------------------------- session protocol client claims
Pending(r) == request[r] = "pending"
OldestPending == CHOOSE r \in Reqs : Pending(r) /\ \A q \in Reqs : Pending(q) => r <= q

\* C2: for requests A then B submitted concurrently, B's message is not written
\* to the socket until A's response or failure has been delivered: at every
\* moment at most one request is in flight.
C2_OneInFlight ==
  \A a, b \in Reqs :
    (a < b /\ \E i \in 1..Len(sessionSent) : sessionSent[i] = b) => ~Pending(a)

\* C3: when the session transport closes, every request in flight or queued at
\* that moment is failed with a transport error, and none stays unresolved.
C3_CloseFailsAll ==
  /\ [][OnClose =>
          /\ requestQueue' = <<>>
          /\ \A r \in Reqs : Pending(r) =>
               request'[r] = "rejected" /\ reqError'[r] = "WebSocket closed"]_sessVars
  /\ [](sessionSocket = "CLOSED" => \A r \in Reqs : ~Pending(r))

\* the socket closed while two requests were outstanding; both failed
C3_Witness ==
  /\ sessionSocket = "CLOSED"
  /\ Cardinality({r \in Reqs : reqError[r] = "WebSocket closed"}) >= 2

\* C6: requests complete strictly in submission order: each message received
\* settles the oldest submitted request that is not yet settled, and no request
\* is settled by the response to a different request.
C6_FifoCompletion ==
  /\ [][(OnData /\ \E r \in Reqs : Pending(r)) =>
          /\ request'[OldestPending] \in {"resolved", "rejected"}
          /\ \A r \in Reqs : r # OldestPending => request'[r] = request[r]]_sessVars
  /\ [](\A r \in Reqs : reqAnswer[r] # NoReq => reqAnswer[r] = r)

\* two pipelined requests were both answered
C6_Witness ==
  /\ reqAnswer[1] = 1 /\ reqAnswer[2] = 2
  /\ Len(sessionSent) = MaxReq

\* C7: when the session transport signals an error, every request in flight or
\* queued at that moment is failed immediately.
C7_ErrorFailsAll ==
  [][OnError =>
       /\ requestQueue' = <<>>
       /\ \A r \in Reqs : Pending(r) => request'[r] = "rejected"]_sessVars

\* C19: while the session socket is not open, a request fails at once with
\* 'Not connected', writes nothing to the socket and registers no callback
C19_NotConnectedFailsFast ==
  [][\A r \in Reqs :
       (request[r] = "unborn" /\ request'[r] # "unborn" /\ sessionSocket # "OPEN") =>
         /\ request'[r] = "rejected"
         /\ reqError'[r] = "Not connected"
         /\ sessionSent' = sessionSent
         /\ requestQueue' = requestQueue]_vars

\* a request made after the close failed fast, next to one the close had failed
C19_Witness ==
  /\ sessionSocket = "CLOSED"
  /\ \E r \in Reqs : reqError[r] = "WebSocket closed"
  /\ \E r \in Reqs : reqError[r] = "Not connected"
  /\ \E r \in Reqs : request[r] = "unborn"

\* C20: a request resolves to the data field of the response it is handed when
\* the status is "success", and is rejected with the response's error field as
\* message otherwise
C20_ResponseOutcome ==
  [][\A r \in Reqs :
       (/\ request[r] = "pending" /\ request'[r] # "pending"
        /\ inbox # <<>> /\ sessionSocket' = sessionSocket) =>
         IF Head(inbox).status = "success"
         THEN request'[r] = "resolved" /\ reqData'[r] = Head(inbox).data
         ELSE request'[r] = "rejected" /\ reqError'[r] = Head(inbox).error]_vars

\* one request resolved to its data, another was rejected with the remote message
C20_Witness ==
  /\ request[1] = "resolved" /\ reqData[1] = 1
  /\ request[2] = "rejected" /\ reqError[2] = ErrorOf(2)

\* ================================================ debug session orchestrator
Sess == 1..NSess

\* positions of launchRequest at which the launch is in progress: the await it
\* is suspended at ("stopRenode": the disconnect() run by an interrupted launch)
Launching == {"startRenode", "terminals", "upload", "execMonitor", "connectWs", "stopRenode"}

OnlyOneSession == "Only one debugging session is supported"
RenodeDidNotStart == "Renode did not start"
TerminalError == "UART is not a part of machine"
UploadError == "upload failed"
MonitorError == "Renode did not execute initial commands"
DebuggerError == "Failed to load debugger"
LaunchInterrupted == "Launch interrupted"

\* MI2.sendRaw on a socket that is still CONNECTING: socket.send throws
detachThrows(m) == m = "CONNECTING"

\* miDebugger?.detach(): sendRaw('-target-detach'); socket.close()
detach(m) == IF m \in {"OPEN", "ready"} THEN "detached" ELSE m

\* disconnect() has shown nothing
NoReport == [session |-> 0, failed |-> FALSE, shown |-> ""]
\* RenodePluginContext.stopRenode(): a failure of the kill request is caught
\* and dropped, the promise it returns is fulfilled either way
contextStopRenode(failed) == "fulfilled"
\* what disconnect() shows when that promise is settled
stopMessage(outcome) ==
  IF outcome = "fulfilled" THEN "Renode stopped" ELSE "Renode did not stop"
\* the stopRenode() that disconnect() awaited is over: the kill request was
\* answered, or, if the session-protocol socket has closed, it was not sent
\* or has failed with the socket
StopReported(s) ==
  \E failed \in (IF closes > 0 /\ currentSession = "undefined" THEN BOOLEAN ELSE {FALSE}) :
    stopReport' = [session |-> s, failed |-> failed,
                   shown |-> stopMessage(contextStopRenode(failed))]

LaunchInit ==
  /\ isDebugging = FALSE
  /\ pc = [s \in Sess |-> "idle"]
  /\ dpc = [s \in Sess |-> "none"]
  /\ isRemote = [s \in Sess |-> FALSE]
  /\ interruptedLaunch = [s \in Sess |-> FALSE]
  /\ renodeStarted = [s \in Sess |-> FALSE]
  /\ miDebugger = [s \in Sess |-> "undefined"]
  /\ response = [s \in Sess |-> "none"]
  /\ spawned = [s \in Sess |-> FALSE]
  /\ killed = [s \in Sess |-> FALSE]
  /\ raced = [s \in Sess |-> FALSE]
  /\ currentSession = "undefined"
  /\ closes = 0
  /\ stopReport = NoReport

\* the catch block of launchRequest: error response, isDebugging = false
CatchLaunch(s, err) ==
  /\ response' = [response EXCEPT ![s] = err]
  /\ isDebugging' = FALSE
  /\ pc' = [pc EXCEPT ![s] = "ended"]

\* RenodePluginContext.socketReady
contextSocketReady == currentSession = "open"

\* the sessions whose terminateSession listens to the context's pre-disconnect
\* event: registered when their startRenode returned
Registered(o) ==
  pc[o] \in {"terminals", "upload", "execMonitor", "connectWs", "stopRenode", "started"}

\* launchRequest up to its first await: the single-session guard of
\* launchRequestInner, then the call of pluginCtx.startRenode(), whose
\* connectGuard starts connecting if the socket is not ready; the
\* disconnectCommandHandler run by that fires the pre-disconnect event
LaunchRequest(s, remote) ==
  /\ pc[s] = "idle"
  /\ interruptedLaunch' =
       [o \in Sess |->
          IF o = s THEN FALSE
          ELSE IF ~isDebugging /\ ~contextSocketReady /\ Registered(o) THEN TRUE
          ELSE interruptedLaunch[o]]
  /\ IF isDebugging
     THEN /\ CatchLaunch(s, OnlyOneSession)
          /\ UNCHANGED isRemote
     ELSE /\ isDebugging' = TRUE
          /\ pc' = [pc EXCEPT ![s] = "startRenode"]
          /\ isRemote' = [isRemote EXCEPT ![s] = remote]
          /\ UNCHANGED response
  /\ UNCHANGED <<dpc, renodeStarted, miDebugger, spawned, killed, raced>>
  /\ UNCHANGED <<currentSession, closes>>
  /\ stopReport' = NoReport
  /\ UNCHANGED <<miVars, sessVars, ioVars, pathVars, fsVars, logVars, guardVars>>

\* pluginCtx.startRenode() resolved: the connection is there, the remote
\* process is spawned, the context sets isDebugging, and the terminals are
\* requested
StartRenodeOk(s) ==
  /\ pc[s] = "startRenode"
  /\ spawned' = [spawned EXCEPT ![s] = TRUE]
  /\ isDebugging' = TRUE
  /\ pc' = [pc EXCEPT ![s] = "terminals"]
  /\ UNCHANGED <<dpc, isRemote, interruptedLaunch, renodeStarted, miDebugger,
                 response, killed, raced>>
  /\ currentSession' = "open"
  /\ UNCHANGED closes
  /\ stopReport' = NoReport
  /\ UNCHANGED <<miVars, sessVars, ioVars, pathVars, fsVars, logVars, guardVars>>

\* pluginCtx.startRenode() rejected: connectGuard could not connect, or it
\* could and the 'spawn' request failed
StartRenodeFail(s) ==
  /\ pc[s] = "startRenode"
  /\ CatchLaunch(s, RenodeDidNotStart)
  /\ UNCHANGED <<dpc, interruptedLaunch, renodeStarted, miDebugger,
                 spawned, killed, raced>>
  /\ isRemote' = [isRemote EXCEPT ![s] = FALSE]
  /\ \E c \in {currentSession, "open"} : currentSession' = c
  /\ UNCHANGED closes
  /\ stopReport' = NoReport
  /\ UNCHANGED <<miVars, sessVars, ioVars, pathVars, fsVars, logVars, guardVars>>

\* Promise.all(handleTerminals(...)) resolved; a remote session uploads its
\* files next, a local one sends the monitor command batch
TerminalsOk(s) ==
  /\ pc[s] = "terminals"
  /\ pc' = [pc EXCEPT ![s] = IF isRemote[s] THEN "upload" ELSE "execMonitor"]
  /\ UNCHANGED <<isDebugging, dpc, isRemote, interruptedLaunch, renodeStarted,
                 miDebugger, response, spawned, killed, raced>>
  /\ UNCHANGED <<currentSession, closes>>
  /\ stopReport' = NoReport
  /\ UNCHANGED <<miVars, sessVars, ioVars, pathVars, fsVars, logVars, guardVars>>

\* a terminal could not be set up (unknown machine or UART, monitor failure)
TerminalsFail(s) ==
  /\ pc[s] = "terminals"
  /\ CatchLaunch(s, TerminalError)
  /\ UNCHANGED <<dpc, interruptedLaunch, renodeStarted, miDebugger,
                 spawned, killed, raced>>
  /\ isRemote' = [isRemote EXCEPT ![s] = FALSE]
  /\ UNCHANGED <<currentSession, closes>>
  /\ stopReport' = NoReport
  /\ UNCHANGED <<miVars, sessVars, ioVars, pathVars, fsVars, logVars, guardVars>>

\* sendFileFromPath of resc, repl and elf resolved
UploadOk(s) ==
  /\ pc[s] = "upload"
  /\ pc' = [pc EXCEPT ![s] = "execMonitor"]
  /\ UNCHANGED <<isDebugging, dpc, isRemote, interruptedLaunch, renodeStarted,
                 miDebugger, response, spawned, killed, raced>>
  /\ UNCHANGED <<currentSession, closes>>
  /\ stopReport' = NoReport
  /\ UNCHANGED <<miVars, sessVars, ioVars, pathVars, fsVars, logVars, guardVars>>

\* a sendFileFromPath rejected
UploadFail(s) ==
  /\ pc[s] = "upload"
  /\ CatchLaunch(s, UploadError)
  /\ UNCHANGED <<dpc, interruptedLaunch, renodeStarted, miDebugger,
                 spawned, killed, raced>>
  /\ isRemote' = [isRemote EXCEPT ![s] = FALSE]
  /\ UNCHANGED <<currentSession, closes>>
  /\ stopReport' = NoReport
  /\ UNCHANGED <<miVars, sessVars, ioVars, pathVars, fsVars, logVars, guardVars>>

\* pluginCtx.execMonitor(monitorCommands) resolved: renodeStarted = true, the
\* MI2 object is created and connectWs is called
ExecMonitorOk(s) ==
  /\ pc[s] = "execMonitor"
  /\ renodeStarted' = [renodeStarted EXCEPT ![s] = TRUE]
  /\ miDebugger' = [miDebugger EXCEPT ![s] = "CONNECTING"]
  /\ pc' = [pc EXCEPT ![s] = "connectWs"]
  /\ UNCHANGED <<isDebugging, dpc, interruptedLaunch, response,
                 spawned, killed, raced>>
  /\ isRemote' = [isRemote EXCEPT ![s] = FALSE]
  /\ UNCHANGED <<currentSession, closes>>
  /\ stopReport' = NoReport
  /\ UNCHANGED <<miVars, sessVars, ioVars, pathVars, fsVars, logVars, guardVars>>

\* pluginCtx.execMonitor(monitorCommands) rejected
ExecMonitorFail(s) ==
  /\ pc[s] = "execMonitor"
  /\ CatchLaunch(s, MonitorError)
  /\ UNCHANGED <<dpc, interruptedLaunch, renodeStarted, miDebugger,
                 spawned, killed, raced>>
  /\ isRemote' = [isRemote EXCEPT ![s] = FALSE]
  /\ UNCHANGED <<currentSession, closes>>
  /\ stopReport' = NoReport
  /\ UNCHANGED <<miVars, sessVars, ioVars, pathVars, fsVars, logVars, guardVars>>

\* the MI socket opened: the initial command batch is on its way
MiSocketOpen(s) ==
  /\ miDebugger[s] = "CONNECTING"
  /\ miDebugger' = [miDebugger EXCEPT ![s] = "OPEN"]
  /\ UNCHANGED <<isDebugging, pc, dpc, isRemote, interruptedLaunch, renodeStarted,
                 response, spawned, killed, raced>>
  /\ UNCHANGED <<currentSession, closes>>
  /\ stopReport' = NoReport
  /\ UNCHANGED <<miVars, sessVars, ioVars, pathVars, fsVars, logVars, guardVars>>

\* the MI socket failed or was closed by the remote end: 'launcherror' or
\* 'quit' is emitted, the promise of connectWs is left as it is
MiSocketLost(s) ==
  /\ miDebugger[s] \in {"CONNECTING", "OPEN", "ready"}
  /\ miDebugger' = [miDebugger EXCEPT ![s] = "closed"]
  /\ UNCHANGED <<isDebugging, pc, dpc, isRemote, interruptedLaunch, renodeStarted,
                 response, spawned, killed, raced>>
  /\ UNCHANGED <<currentSession, closes>>
  /\ stopReport' = NoReport
  /\ UNCHANGED <<miVars, sessVars, ioVars, pathVars, fsVars, logVars, guardVars>>

\* a launch that never looks at the flag
launchInterrupted_ignored(s) == FALSE

\* 'if (this.interruptedLaunch)' after launchRequestInner has returned
launchInterrupted(s) == interruptedLaunch[s]

\* connectWs resolved: launchRequestInner returns; an interrupted launch runs
\* disconnect() and fails with 'Launch interrupted', another one succeeds
ConnectWsOk(s) ==
  /\ pc[s] = "connectWs"
  /\ miDebugger[s] = "OPEN"
  /\ IF launchInterrupted(s)
     THEN IF renodeStarted[s]
          THEN /\ killed' = [killed EXCEPT ![s] = TRUE]
               /\ pc' = [pc EXCEPT ![s] = "stopRenode"]
               /\ miDebugger' = [miDebugger EXCEPT ![s] = "ready"]
               /\ UNCHANGED <<isDebugging, renodeStarted, response>>
          ELSE /\ miDebugger' = [miDebugger EXCEPT ![s] = detach("ready")]
               /\ renodeStarted' = [renodeStarted EXCEPT ![s] = FALSE]
               /\ CatchLaunch(s, LaunchInterrupted)
               /\ UNCHANGED killed
     ELSE /\ miDebugger' = [miDebugger EXCEPT ![s] = "ready"]
          /\ response' = [response EXCEPT ![s] = "success"]
          /\ pc' = [pc EXCEPT ![s] = "started"]
          /\ UNCHANGED <<isDebugging, renodeStarted, killed>>
  /\ UNCHANGED <<dpc, isRemote, interruptedLaunch, spawned, raced>>
  /\ UNCHANGED <<currentSession, closes>>
  /\ stopReport' = NoReport
  /\ UNCHANGED <<miVars, sessVars, ioVars, pathVars, fsVars, logVars, guardVars>>

\* connectWs rejected: one of the initial commands failed
ConnectWsFail(s) ==
  /\ pc[s] = "connectWs"
  /\ miDebugger[s] = "OPEN"
  /\ CatchLaunch(s, DebuggerError)
  /\ UNCHANGED <<dpc, isRemote, interruptedLaunch, renodeStarted, miDebugger,
                 spawned, killed, raced>>
  /\ UNCHANGED <<currentSession, closes>>
  /\ stopReport' = NoReport
  /\ UNCHANGED <<miVars, sessVars, ioVars, pathVars, fsVars, logVars, guardVars>>

\* the stopRenode() awaited by the disconnect() of an interrupted launch is
\* over: detach, reset, then 'Launch interrupted' is thrown and caught
LaunchStopDone(s) ==
  /\ pc[s] = "stopRenode"
  /\ miDebugger' = [miDebugger EXCEPT ![s] = detach(miDebugger[s])]
  /\ renodeStarted' = [renodeStarted EXCEPT ![s] = FALSE]
  /\ CatchLaunch(s, LaunchInterrupted)
  /\ UNCHANGED <<dpc, isRemote, interruptedLaunch, spawned, killed, raced>>
  /\ UNCHANGED <<currentSession, closes>>
  /\ StopReported(s)
  /\ UNCHANGED <<miVars, sessVars, ioVars, pathVars, fsVars, logVars, guardVars>>

\* disconnectRequest up to its first await: interruptedLaunch = true, then
\* disconnect(), which awaits pluginCtx.stopRenode() only if renodeStarted
DisconnectRequest(s) ==
  /\ pc[s] # "idle"
  /\ dpc[s] = "none"
  /\ interruptedLaunch' = [interruptedLaunch EXCEPT ![s] = TRUE]
  /\ raced' = [raced EXCEPT ![s] = pc[s] \in Launching]
  /\ IF renodeStarted[s]
     THEN /\ killed' = [killed EXCEPT ![s] = TRUE]
          /\ dpc' = [dpc EXCEPT ![s] = "stopRenode"]
          /\ UNCHANGED <<isDebugging, renodeStarted, miDebugger>>
     ELSE IF detachThrows(miDebugger[s])
          THEN /\ dpc' = [dpc EXCEPT ![s] = "threw"]
               /\ UNCHANGED <<isDebugging, renodeStarted, miDebugger, killed>>
          ELSE /\ miDebugger' = [miDebugger EXCEPT ![s] = detach(miDebugger[s])]
               /\ renodeStarted' = [renodeStarted EXCEPT ![s] = FALSE]
               /\ isDebugging' = FALSE
               /\ dpc' = [dpc EXCEPT ![s] = "done"]
               /\ UNCHANGED killed
  /\ UNCHANGED <<pc, isRemote, response, spawned>>
  /\ UNCHANGED <<currentSession, closes>>
  /\ stopReport' = NoReport
  /\ UNCHANGED <<miVars, sessVars, ioVars, pathVars, fsVars, logVars, guardVars>>

\* the stopRenode() awaited by disconnectRequest is over (the context has reset
\* isDebugging): detach, reset, send the response
DisconnectStopDone(s) ==
  /\ dpc[s] = "stopRenode"
  /\ isDebugging' = FALSE
  /\ IF detachThrows(miDebugger[s])
     THEN /\ dpc' = [dpc EXCEPT ![s] = "threw"]
          /\ UNCHANGED <<renodeStarted, miDebugger>>
     ELSE /\ miDebugger' = [miDebugger EXCEPT ![s] = detach(miDebugger[s])]
          /\ renodeStarted' = [renodeStarted EXCEPT ![s] = FALSE]
          /\ dpc' = [dpc EXCEPT ![s] = "done"]
  /\ UNCHANGED <<pc, isRemote, interruptedLaunch, response, spawned, killed, raced>>
  /\ UNCHANGED <<currentSession, closes>>
  /\ StopReported(s)
  /\ UNCHANGED <<miVars, sessVars, ioVars, pathVars, fsVars, logVars, guardVars>>

\* terminateSession(), called on 'renode-parent-terminates' and on the context's
\* pre-disconnect event: interruptedLaunch = true, a TerminatedEvent is sent
TerminateSession(s) ==
  /\ ~interruptedLaunch[s]
  /\ interruptedLaunch' = [interruptedLaunch EXCEPT ![s] = TRUE]
  /\ UNCHANGED <<isDebugging, pc, dpc, isRemote, renodeStarted, miDebugger,
                 response, spawned, killed, raced>>
  /\ UNCHANGED <<currentSession, closes>>
  /\ stopReport' = NoReport
  /\ UNCHANGED <<miVars, sessVars, ioVars, pathVars, fsVars, logVars, guardVars>>

\* C32: disconnect() always ends in Idle, renodeStarted = false and
\* isDebugging = false, whatever the state of the connections, and a kill
\* request that failed is reported as 'Renode did not stop' without making
\* disconnect fail
C32_DisconnectEndsIdle ==
  [][\A s \in Sess :
       /\ (dpc'[s] # dpc[s] /\ dpc'[s] \in {"done", "threw"}) =>
            dpc'[s] = "done" /\ ~renodeStarted'[s] /\ ~isDebugging'
       /\ (stopReport'.session = s /\ stopReport'.failed) =>
            stopReport'.shown = "Renode did not stop"]_vars

\* an onClose that leaves the flag as it is
onClose_keepsFlag(ctx) == [ctx EXCEPT !.currentSession = "undefined"]

\* RenodePluginContext.onClose
onClose(ctx) == [currentSession |-> "undefined", isDebugging |-> FALSE]

\* positions at which launchRequest awaits a request of the session protocol
InFlight == {"startRenode", "terminals", "upload", "execMonitor"}
ErrorAt(p) ==
  CASE p = "startRenode" -> RenodeDidNotStart
    [] p = "terminals" -> TerminalError
    [] p = "upload" -> UploadError
    [] OTHER -> MonitorError

\* the session-protocol socket closes: RenodeProxySession.onClose fails every
\* queued request and dispatches 'close', RenodePluginContext.onClose clears
\* the session and the flag; the launches that awaited a request run their
\* catch. A pending stopRenode fails too, which the context swallows
ContextOnClose ==
  /\ contextSocketReady
  /\ closes < MaxCloses
  /\ closes' = closes + 1
  /\ stopReport' = NoReport
  /\ LET ctx == onClose([currentSession |-> currentSession, isDebugging |-> isDebugging])
     IN /\ currentSession' = ctx.currentSession
        /\ isDebugging' = ctx.isDebugging
  /\ pc' = [s \in Sess |-> IF pc[s] \in InFlight THEN "ended" ELSE pc[s]]
  /\ response' = [s \in Sess |-> IF pc[s] \in InFlight THEN ErrorAt(pc[s]) ELSE response[s]]
  /\ isRemote' = [s \in Sess |-> IF pc[s] \in InFlight THEN FALSE ELSE isRemote[s]]
  /\ UNCHANGED <<dpc, interruptedLaunch, renodeStarted, miDebugger, spawned, killed, raced>>
  /\ UNCHANGED <<miVars, sessVars, ioVars, pathVars, fsVars, logVars, guardVars>>

LaunchNext ==
  \E s \in Sess :
    \/ \E remote \in BOOLEAN : LaunchRequest(s, remote)
    \/ StartRenodeOk(s)
    \/ StartRenodeFail(s)
    \/ TerminalsOk(s)
    \/ TerminalsFail(s)
    \/ UploadOk(s)
    \/ UploadFail(s)
    \/ ExecMonitorOk(s)
    \/ ExecMonitorFail(s)
    \/ MiSocketOpen(s)
    \/ MiSocketLost(s)
    \/ ConnectWsOk(s)
    \/ ConnectWsFail(s)
    \/ LaunchStopDone(s)
    \/ DisconnectRequest(s)
    \/ DisconnectStopDone(s)
    \/ TerminateSession(s)

\* launches and disconnects while the session-protocol socket may be lost;
\* the requests of a launch fail only by that, once the connection is there
ContextNext ==
  \/ \E s \in Sess :
       \/ \E remote \in BOOLEAN : LaunchRequest(s, remote)
       \/ StartRenodeOk(s)
       \/ StartRenodeFail(s)
       \/ TerminalsOk(s)
       \/ UploadOk(s)
       \/ ExecMonitorOk(s)
       \/ MiSocketOpen(s)
       \/ ConnectWsOk(s)
       \/ LaunchStopDone(s)
       \/ DisconnectRequest(s)
       \/ DisconnectStopDone(s)
  \/ ContextOnClose

\* ------------------------------------------------------- orchestrator claims
\* a session whose launch is in progress, or that is started and whose
\* disconnect, if any, is not over
Active(o) == pc[o] \in Launching \/ (pc[o] = "started" /\ dpc[o] \in {"none", "stopRenode"})

\* launchRequest of s has unwound: it answered, with success or with an error
Unwound(s) == pc[s] \in {"started", "ended"}

\* nothing of session s is left: MI connection detached and closed (or never
\* made), the remote process asked to stop if it was spawned, state Idle
\* (isDebugging may only be set on behalf of another session)
TornDown(s) ==
  /\ miDebugger[s] \in {"undefined", "detached", "closed"}
  /\ spawned[s] => killed[s]
  /\ ~renodeStarted[s]
  /\ isDebugging => \E o \in Sess \ {s} : Active(o)

\* C4: if a disconnect request arrived while launchRequest was in progress,
\* then once the launch has unwound (and the disconnect request is over) the
\* session is fully torn down: MI connection detached and closed, the remote
\* process asked to stop, renodeStarted = false and isDebugging = false.
C4_DisconnectDuringLaunch ==
  \A s \in Sess :
    (raced[s] /\ Unwound(s) /\ dpc[s] \in {"done", "threw"}) => TornDown(s)

\* C5: a launchRequest issued while another session on the same plugin context
\* is Launching or Started fails with 'Only one debugging session is supported'
\* and starts nothing.
C5_SingleSession ==
  [][\A s \in Sess :
       (pc[s] = "idle" /\ pc'[s] # "idle" /\ \E o \in Sess \ {s} : Active(o))
         => (response'[s] = OnlyOneSession /\ pc'[s] = "ended")]_vars

\* C9: when a step of the launch fails after the remote process has been
\* started, the launch is aborted with a kill request sent for that process and
\* the state back to Idle (renodeStarted = false, isDebugging = false).
C9_LaunchFailureRollsBack ==
  [][\A s \in Sess :
       (spawned[s] /\ pc[s] \in Launching /\ pc'[s] = "ended"
          /\ response'[s] # LaunchInterrupted)
         => (killed'[s] /\ ~renodeStarted'[s] /\ ~isDebugging')]_vars

Attached(s) == miDebugger[s] \in {"CONNECTING", "OPEN", "ready"}

\* C23: disconnect() detaches the MI connection before it requests the kill of
\* the remote process: when the kill request is sent, no debugger is attached
C23_DetachBeforeKill ==
  [][\A s \in Sess : (~killed[s] /\ killed'[s]) => ~Attached(s) /\ ~Attached(s)']_vars

\* C24: a launch starts the remote process, then runs the monitor batch, then
\* opens the MI connection, then attaches the terminals, each step beginning
\* after the previous one succeeded; it is Started only after the monitor
\* batch and the MI connection
C24_LaunchOrder ==
  [][\A s \in Sess :
       /\ (pc[s] # "execMonitor" /\ pc'[s] = "execMonitor") => spawned'[s]
       /\ (pc[s] # "connectWs" /\ pc'[s] = "connectWs")
            => (pc[s] = "execMonitor" /\ renodeStarted'[s])
       /\ (pc[s] # "terminals" /\ pc'[s] = "terminals") => miDebugger[s] \in {"OPEN", "ready"}
       /\ (pc[s] # "started" /\ pc'[s] = "started")
            => (pc[s] = "connectWs" /\ renodeStarted[s] /\ miDebugger[s] = "OPEN")]_vars

\* C29: a launch request rejected by the single-session guard leaves
\* isDebugging set
C29_RejectedLaunchKeepsGuard ==
  [][\A s \in Sess :
       (pc[s] = "idle" /\ pc'[s] = "ended" /\ response'[s] = OnlyOneSession)
         => (isDebugging /\ isDebugging')]_vars

\* C25: when the session-protocol socket is lost, the context is left with
\* no session and isDebugging = false; the launch request that follows is
\* admitted by the single-session guard, and its startRenode succeeds only
\* with a connection established
C25_ReconnectAfterClose ==
  [][/\ closes' # closes => (currentSession' = "undefined" /\ ~isDebugging')
     /\ \A s \in Sess :
          /\ (closes > 0 /\ ~contextSocketReady /\ ~isDebugging /\ pc[s] = "idle" /\ pc'[s] # "idle")
               => (pc'[s] = "startRenode" /\ isDebugging')
          /\ (pc[s] = "startRenode" /\ pc'[s] = "terminals") => currentSession' = "open"]_vars

\* the socket was lost while a session was started, and the launch of another
\* session has connected again
C25_Witness ==
  /\ closes = 1
  /\ currentSession = "open"
  /\ isDebugging
  /\ \E s, t \in Sess : pc[s] = "started" /\ pc[t] = "terminals" /\ response[t] = "none"

\* ============================================================ path mappings
\* [their, our] pairs: Object.entries(args.pathMappings) keeps the insertion
\* order of the keys, and the keys (the debugger's prefixes) are distinct
Prefixes == {<<"/", "a">>, <<"/", "a", "/", "b">>, <<"/", "c">>}
Paths ==
  { <<"/", "a", "/", "b", "/", "c">>, <<"/", "a", "/", "c">>, <<"/", "a", "b">>,
    <<"/", "c">>, <<"/", "b">> }
MappingLists ==
  { ms \in UNION { [1..n -> Prefixes \X Prefixes] : n \in 1..MaxMappings } :
      \A i, j \in DOMAIN ms : ms[i][1] = ms[j][1] => i = j }

startsWith(path, prefix) == IsPrefix(prefix, path)
slice(path, n) == After(path, n)

RECURSIVE clientToDebuggerFrom(_, _, _)
clientToDebuggerFrom(ms, i, clientPath) ==
  IF i > Len(ms) THEN clientPath
  ELSE IF startsWith(clientPath, ms[i][2])
         THEN ms[i][1] \o slice(clientPath, Len(ms[i][2]))
         ELSE clientToDebuggerFrom(ms, i + 1, clientPath)

RECURSIVE debuggerToClientFrom(_, _, _)
debuggerToClientFrom(ms, i, debuggerPath) ==
  IF i > Len(ms) THEN debuggerPath
  ELSE IF startsWith(debuggerPath, ms[i][1])
         THEN ms[i][2] \o slice(debuggerPath, Len(ms[i][1]))
         ELSE debuggerToClientFrom(ms, i + 1, debuggerPath)

Reversed(ms) == [i \in 1..Len(ms) |-> ms[Len(ms) + 1 - i]]

convertClientPathToDebugger_lastMatch(ms, clientPath) ==
  clientToDebuggerFrom(Reversed(ms), 1, clientPath)
convertClientPathToDebugger(ms, clientPath) == clientToDebuggerFrom(ms, 1, clientPath)

convertDebuggerPathToClient(ms, debuggerPath) == debuggerToClientFrom(ms, 1, debuggerPath)

PathInit ==
  /\ mappings = <<>>
  /\ pathArg = <<>>
  /\ pathDir = "none"
  /\ pathResult = <<>>

\* launchRequestInner: this.mappings = Object.entries(args.pathMappings ?? {})
SetMappings(ms) ==
  /\ mappings = <<>>
  /\ pathDir = "none"
  /\ mappings' = ms
  /\ UNCHANGED <<pathArg, pathDir, pathResult>>
  /\ UNCHANGED <<miVars, sessVars, launchVars, ioVars, fsVars, logVars, guardVars>>

ConvertClientPathToDebugger(clientPath) ==
  /\ pathArg' = clientPath
  /\ pathDir' = "toDebugger"
  /\ pathResult' = convertClientPathToDebugger(mappings, clientPath)
  /\ UNCHANGED mappings
  /\ UNCHANGED <<miVars, sessVars, launchVars, ioVars, fsVars, logVars, guardVars>>

ConvertDebuggerPathToClient(debuggerPath) ==
  /\ pathArg' = debuggerPath
  /\ pathDir' = "toClient"
  /\ pathResult' = convertDebuggerPathToClient(mappings, debuggerPath)
  /\ UNCHANGED mappings
  /\ UNCHANGED <<miVars, sessVars, launchVars, ioVars, fsVars, logVars, guardVars>>

PathNext ==
  \/ \E ms \in MappingLists : SetMappings(ms)
  \/ \E path \in Paths : ConvertClientPathToDebugger(path)
  \/ \E path \in Paths : ConvertDebuggerPathToClient(path)

\* ------------------------------------------------------ path mapping claims
\* the mappings whose prefix on the given side (1: the debugger's, 2: the
\* client's) the translated path starts with, no earlier mapping doing so
FirstMatch(side) ==
  { i \in DOMAIN mappings :
      /\ startsWith(pathArg, mappings[i][side])
      /\ \A j \in 1..(i - 1) : ~startsWith(pathArg, mappings[j][side]) }

\* C27: a path translation replaces the prefix of the first mapping, in list
\* order, whose client prefix (to the debugger) or debugger prefix (to the
\* client) the path starts with, returns the path unchanged when no mapping
\* matches, and depends on the path and the mapping list only
C27_PathTranslation ==
  /\ pathDir = "toDebugger" =>
       /\ \A i \in FirstMatch(2) :
            pathResult = mappings[i][1] \o SubSeq(pathArg, Len(mappings[i][2]) + 1, Len(pathArg))
       /\ FirstMatch(2) = {} => pathResult = pathArg
  /\ pathDir = "toClient" =>
       /\ \A i \in FirstMatch(1) :
            pathResult = mappings[i][2] \o SubSeq(pathArg, Len(mappings[i][1]) + 1, Len(pathArg))
       /\ FirstMatch(1) = {} => pathResult = pathArg

\* two mappings match the client path and would translate it differently
C27_Witness ==
  /\ pathDir = "toDebugger"
  /\ Len(mappings) = 2
  /\ startsWith(pathArg, mappings[1][2])
  /\ startsWith(pathArg, mappings[2][2])
  /\ pathResult # mappings[2][1] \o SubSeq(pathArg, Len(mappings[2][2]) + 1, Len(pathArg))

\* ====================================================== virtual file system
Dirs == {"/", "/biz/a/b"}
Entries ==
  { [name |-> "1.txt", isfile |-> TRUE, islink |-> FALSE],
    [name |-> "c", isfile |-> FALSE, islink |-> FALSE],
    [name |-> "l", isfile |-> TRUE, islink |-> TRUE] }
Biz == [name |-> "biz", isfile |-> FALSE, islink |-> FALSE]

\* vscode.FileType
File == 1
Directory == 2
SymbolicLink == 64

\* JSON of an argument that was not passed: JSON.stringify([undefined])
Null == "null"
NoRequest == [action |-> "none", args |-> <<>>]
NoResult == [status |-> "none", entries |-> {}]
Listing == [status |-> "pending", entries |-> {}]
Failed == [status |-> "error", entries |-> {}]
Returned(entries) == [status |-> "returned", entries |-> entries]

\* RenodeProxySession.listFiles(path)
listFiles(path) == [action |-> "fs/list", args |-> <<path>>]

\* the map callback of readDirectory
typeOf(file) ==
  (IF file.isfile THEN File ELSE Directory) + (IF file.islink THEN SymbolicLink ELSE 0)
listing(files) == { <<file.name, typeOf(file)>> : file \in files }

\* what the server answers to fs/list: the files of the directory named; a
\* request that names none is answered with the files of the root, as the
\* earlier fs/list without arguments was, or with a failure
Root == "/"
Answers(req) ==
  IF req.args[1] \in Dirs THEN {[status |-> "success", data |-> remoteFs[req.args[1]]]}
  ELSE {[status |-> "success", data |-> remoteFs[Root]], [status |-> "failure", data |-> {}]}

FsInit ==
  /\ remoteFs = [d \in Dirs |-> IF d = Root THEN {Biz} ELSE {}]
  /\ fsUri = Root
  /\ fsRequest = NoRequest
  /\ fsResult = NoResult

\* the remote side of createDirectory / sendFile: a new entry in a directory
RemoteCreate(d, file) ==
  /\ fsRequest = NoRequest
  /\ file \notin remoteFs[d]
  /\ remoteFs' = [remoteFs EXCEPT ![d] = @ \cup {file}]
  /\ fsResult' = NoResult
  /\ UNCHANGED <<fsUri, fsRequest>>
  /\ UNCHANGED <<miVars, sessVars, launchVars, ioVars, pathVars, logVars, guardVars>>

\* RenodeFsProvider.readDirectory(uri) up to its await: pluginCtx.listFiles()
\* is called without an argument
ReadDirectory(uri) ==
  /\ fsRequest = NoRequest
  /\ fsUri' = uri
  /\ fsRequest' = listFiles(Null)
  /\ fsResult' = Listing
  /\ UNCHANGED remoteFs
  /\ UNCHANGED <<miVars, sessVars, launchVars, ioVars, pathVars, logVars, guardVars>>

\* the response arrives and readDirectory returns
ListFilesAnswer ==
  /\ fsRequest # NoRequest
  /\ \E obj \in Answers(fsRequest) :
       fsResult' = IF obj.status = "success" THEN Returned(listing(obj.data)) ELSE Failed
  /\ fsRequest' = NoRequest
  /\ UNCHANGED <<remoteFs, fsUri>>
  /\ UNCHANGED <<miVars, sessVars, launchVars, ioVars, pathVars, logVars, guardVars>>

FsNext ==
  \/ \E d \in Dirs, file \in Entries : RemoteCreate(d, file)
  \/ \E uri \in Dirs : ReadDirectory(uri)
  \/ ListFilesAnswer

\* ------------------------------------------------ virtual file system claims
\* C28: readDirectory(uri) returns exactly the entries, with their types, of
\* the remote directory at uri.path, for nested directories as for the root
C28_ReadDirectory ==
  fsResult.status = "returned" => fsResult.entries = listing(remoteFs[fsUri])

\* ------------------------------------------ connection guard of the context
\* bounds: calls of context operations, sessions created, failed attempts
MaxOps == 3
MaxSessions == 2
MaxFailures == 5

\* const retryNumber = 5 of connectCommandHandler
retryNumber == 5

\* the port reserved for the Renode logs; the UART ports follow it
INITIAL_PORT == 29170

Ops == 1 .. MaxOps
SessionName(i) == "s" \o ToString(i)
SessionNames == {SessionName(i) : i \in 1 .. MaxSessions}

\* the operations: the connect command, startRenode, createUARTTerminal
OpKinds == {"connect", "startRenode", "uart"}

\* a call: where it stands, and its locals while it runs
NoOp == [pc |-> "idle", kind |-> "none", tries |-> 0, session |-> "undefined",
         port |-> 0, term |-> 0]

GuardInit ==
  /\ sessions = [s \in SessionNames |-> "none"]
  /\ listeners = {}
  /\ ops = [o \in Ops |-> NoOp]
  /\ lastPort = INITIAL_PORT
  /\ failures = 0

\* RenodePluginContext.socketReady over RenodeProxySession.socketReady
sessionReady(ss, cur) == cur # "undefined" /\ ss[cur] = "OPEN"

\* RenodeProxySession.dispose of the current session: sessionSocket.close()
dispose(ss, cur) ==
  IF cur # "undefined" /\ ss[cur] = "OPEN" THEN [ss EXCEPT ![cur] = "CLOSING"] ELSE ss

\* the number of sessions created so far
Created == Cardinality({s \in SessionNames : sessions[s] # "none"})

\* the operation once connectCommandHandler has returned to it: the connect
\* command is over; connectGuard reads socketReady again and throws, or the
\* operation sends its request on the current session
afterConnect(op, ss, cur) ==
  IF op.kind = "connect" THEN [op EXCEPT !.pc = "done", !.tries = 0]
  ELSE IF sessionReady(ss, cur)
       THEN [op EXCEPT !.pc = "request", !.tries = 0, !.session = cur]
       ELSE [op EXCEPT !.pc = "failed", !.tries = 0]

\* createUARTTerminal connects its terminal to the port lastPort holds when
\* execMonitor has returned
createTerminalPort(op, last) == last

\* an operation of the context is called; the calls are numbered in the order
\* in which they are made. createUARTTerminal first takes the
\* next port and builds its monitor commands with it. connectGuard: with a
\* ready socket the request is sent at once; otherwise, and for the connect
\* command, connectCommandHandler runs disconnectCommandHandler and awaits
\* tryConnect
ContextCall(o, kind) ==
  /\ ops[o].pc = "idle"
  /\ \A earlier \in 1 .. o - 1 : ops[earlier].pc # "idle"
  /\ lastPort' = IF kind = "uart" THEN lastPort + 1 ELSE lastPort
  /\ LET op == [NoOp EXCEPT !.kind = kind,
                            !.port = IF kind = "uart" THEN lastPort' ELSE 0]
     IN IF kind # "connect" /\ sessionReady(sessions, currentSession)
        THEN /\ ops' = [ops EXCEPT ![o] = [op EXCEPT !.pc = "request",
                                                      !.session = currentSession]]
             /\ UNCHANGED <<sessions, currentSession>>
        ELSE /\ ops' = [ops EXCEPT ![o] = [op EXCEPT !.pc = "tryConnect"]]
             /\ sessions' = dispose(sessions, currentSession)
             /\ currentSession' = "undefined"
  /\ UNCHANGED <<listeners, failures, isDebugging>>
  /\ UNCHANGED <<pc, dpc, isRemote, interruptedLaunch, renodeStarted, miDebugger,
                 response, spawned, killed, raced, closes, stopReport>>
  /\ UNCHANGED <<miVars, sessVars, ioVars, pathVars, fsVars, logVars>>

\* tryConnect resolves with a new session on an open socket: the handler
\* assigns it to currentSession, leaves the loop, registers the 'close'
\* listener on it and returns
TryConnectOk(o) ==
  /\ ops[o].pc = "tryConnect"
  /\ Created < MaxSessions
  /\ LET n == SessionName(Created + 1)
     IN /\ sessions' = [sessions EXCEPT ![n] = "OPEN"]
        /\ currentSession' = n
        /\ listeners' = listeners \cup {n}
        /\ ops' = [ops EXCEPT ![o] = afterConnect(@, sessions', n)]
  /\ UNCHANGED <<lastPort, failures, isDebugging>>
  /\ UNCHANGED <<pc, dpc, isRemote, interruptedLaunch, renodeStarted, miDebugger,
                 response, spawned, killed, raced, closes, stopReport>>
  /\ UNCHANGED <<miVars, sessVars, ioVars, pathVars, fsVars, logVars>>

\* tryConnect rejects and the delay passes: the next attempt, or after the
\* last one the end of the loop, where the listener is registered on
\* whatever currentSession holds
TryConnectFail(o) ==
  /\ ops[o].pc = "tryConnect"
  /\ failures < MaxFailures
  /\ failures' = failures + 1
  /\ IF ops[o].tries + 1 < retryNumber
     THEN /\ ops' = [ops EXCEPT ![o].tries = @ + 1]
          /\ UNCHANGED listeners
     ELSE /\ ops' = [ops EXCEPT ![o] = afterConnect(@, sessions, currentSession)]
          /\ listeners' = listeners \cup ({currentSession} \ {"undefined"})
  /\ UNCHANGED <<sessions, currentSession, lastPort, isDebugging>>
  /\ UNCHANGED <<pc, dpc, isRemote, interruptedLaunch, renodeStarted, miDebugger,
                 response, spawned, killed, raced, closes, stopReport>>
  /\ UNCHANGED <<miVars, sessVars, ioVars, pathVars, fsVars, logVars>>

\* the request of an operation is answered on its session's open socket:
\* startRenode sets isDebugging, createUARTTerminal creates its terminal
SessionRequestDone(o) ==
  /\ ops[o].pc = "request"
  /\ sessions[ops[o].session] = "OPEN"
  /\ ops' = [ops EXCEPT ![o] = [@ EXCEPT !.pc = "done",
                                         !.session = "undefined",
                                         !.term = IF ops[o].kind = "uart"
                                                  THEN createTerminalPort(ops[o], lastPort)
                                                  ELSE 0]]
  /\ isDebugging' = (IF ops[o].kind = "startRenode" THEN TRUE ELSE isDebugging)
  /\ UNCHANGED <<sessions, listeners, lastPort, failures, currentSession>>
  /\ UNCHANGED <<pc, dpc, isRemote, interruptedLaunch, renodeStarted, miDebugger,
                 response, spawned, killed, raced, closes, stopReport>>
  /\ UNCHANGED <<miVars, sessVars, ioVars, pathVars, fsVars, logVars>>

\* the disconnect command: disconnectCommandHandler
DisconnectCommand ==
  /\ currentSession # "undefined"
  /\ sessions' = dispose(sessions, currentSession)
  /\ currentSession' = "undefined"
  /\ UNCHANGED <<listeners, ops, lastPort, failures, isDebugging>>
  /\ UNCHANGED <<pc, dpc, isRemote, interruptedLaunch, renodeStarted, miDebugger,
                 response, spawned, killed, raced, closes, stopReport>>
  /\ UNCHANGED <<miVars, sessVars, ioVars, pathVars, fsVars, logVars>>

\* the 'close' event of the socket of session s, closed by dispose or by the
\* server: RenodeProxySession.onClose fails the queued requests and
\* dispatches 'close', which runs the context's onClose if it listens to s
SessionSocketClose(s) ==
  /\ sessions[s] \in {"OPEN", "CLOSING"}
  /\ sessions' = [sessions EXCEPT ![s] = "CLOSED"]
  /\ ops' = [o \in Ops |-> IF ops[o].pc = "request" /\ ops[o].session = s
                            THEN [ops[o] EXCEPT !.pc = "failed", !.session = "undefined"]
                            ELSE ops[o]]
  /\ LET ctx == [currentSession |-> currentSession, isDebugging |-> isDebugging]
         after == IF s \in listeners THEN onClose(ctx) ELSE ctx
     IN /\ currentSession' = after.currentSession
        /\ isDebugging' = after.isDebugging
  /\ UNCHANGED <<listeners, lastPort, failures>>
  /\ UNCHANGED <<pc, dpc, isRemote, interruptedLaunch, renodeStarted, miDebugger,
                 response, spawned, killed, raced, closes, stopReport>>
  /\ UNCHANGED <<miVars, sessVars, ioVars, pathVars, fsVars, logVars>>

GuardNext ==
  \/ \E o \in Ops :
       \/ \E kind \in OpKinds : ContextCall(o, kind)
       \/ TryConnectOk(o)
       \/ TryConnectFail(o)
       \/ SessionRequestDone(o)
  \/ DisconnectCommand
  \/ \E s \in SessionNames : SessionSocketClose(s)

\* C37: the 'close' event of a session that was disposed and replaced leaves
\* the new currentSession and isDebugging as they are
C37_ReplacedSessionClose ==
  [][\A s \in SessionNames :
       (/\ sessions[s] = "CLOSING" /\ sessions'[s] = "CLOSED"
        /\ currentSession \notin {"undefined", s}) =>
         /\ currentSession' = currentSession
         /\ isDebugging' = isDebugging]_vars

\* C38: every UART terminal created is connected to the port of its own
\* monitor commands; the ports of distinct calls differ and lie above
\* INITIAL_PORT
C38_UartPorts ==
  \A o \in Ops :
    (ops[o].kind = "uart" /\ ops[o].pc = "done") =>
      /\ ops[o].term = ops[o].port
      /\ ops[o].port > INITIAL_PORT
      /\ \A o2 \in Ops \ {o} :
           (ops[o2].kind = "uart" /\ ops[o2].pc = "done") => ops[o2].term # ops[o].term

\* C39: whatever the interleaving of the operations that go through
\* connectGuard, at most one session socket of the context is open
C39_OneOpenSession ==
  (\A o \in Ops : ops[o].kind # "connect") =>
    Cardinality({s \in SessionNames : sessions[s] = "OPEN"}) <= 1

\* ============================================================ specifications
Init == MIInit /\ SessionInit /\ LaunchInit /\ IoInit /\ PathInit /\ FsInit /\ GuardInit

\* the MI correlator alone
SpecMI == Init /\ [][MINext]_vars

\* the MI record dispatch alone
SpecOutput == Init /\ [][OutputNext]_vars

\* breakpoint operations against an answering backend
SpecBreak == Init /\ [][BreakNext]_vars

\* breakpoints of two source files, cleared by source file
SpecClear == Init /\ [][ClearNext]_vars

\* breakpoints whose insert is followed by a second command
SpecFollowUp == Init /\ [][FollowUpNext]_vars

\* log points
SpecLogPoint == Init /\ [][LogPointNext]_vars

\* the count condition of a breakpoint
SpecCount == Init /\ [][CountNext]_vars

\* the MI transport delivering the backend's lines
SpecStdout == Init /\ [][StdoutNext]_vars

\* the session protocol client alone
SpecSession == Init /\ [][SessionNext]_vars

\* the debug session orchestrator alone
SpecLaunch == Init /\ [][LaunchNext]_vars

\* the debug sessions of a context whose session-protocol socket may be lost
SpecContext == Init /\ [][ContextNext]_vars

\* path translation of the debug session
SpecPath == Init /\ [][PathNext]_vars

\* the virtual file system provider
SpecFs == Init /\ [][FsNext]_vars

\* concurrent operations behind the connection guard of the context
SpecGuard == Init /\ [][GuardNext]_vars

====
